---------------------------- MODULE Spec2Model ----------------------------
(***************************************************************************)
(* A model of the text-segmentation core of the uscongress-data            *)
(* repository: the speaker scraper (src/speaker_scraper.py) and the        *)
(* boilerplate fuzzy filter                                                *)
(* (src/parse_CRECB_data/4-clean_record_boilerplate.py).                   *)
(*                                                                         *)
(* A text is a sequence of one-character strings and an offset is          *)
(* 0-based, as in Python: the character at offset p of t is t[p + 1].      *)
(* A regular expression is a small syntax tree, matched by Ends with the   *)
(* priorities of Python's backtracking matcher.                            *)
(***************************************************************************)
EXTENDS Integers, Sequences, FiniteSets, TLC

(***************************************************************************)
(* Characters and strings                                                  *)
(***************************************************************************)
Chars(s) == [i \in 1..Len(s) |-> SubSeq(s, i, i)]

\* U+00A0, which scrape replaces by a space; it is whitespace for str.strip
\* and for \s.
NBSP == "nbsp"

UpperSeq == Chars("ABCDEFGHIJKLMNOPQRSTUVWXYZ")
LowerSeq == Chars("abcdefghijklmnopqrstuvwxyz")
UPPER == {UpperSeq[i] : i \in 1..26}
LOWER == {LowerSeq[i] : i \in 1..26}
DIGIT == {"0", "1", "2", "3", "4", "5", "6", "7", "8", "9"}
ALPHA == UPPER \cup LOWER
\* \w of a str pattern, on ASCII
WORD == ALPHA \cup DIGIT \cup {"_"}
\* what str.strip() strips and \s matches, among the characters of the model
WS == {" ", "\t", "\n", "\r", "\f", NBSP}

Last(q) == q[Len(q)]
Min(a, b) == IF a < b THEN a ELSE b
Max(a, b) == IF a > b THEN a ELSE b

\* t[a:b] of Python for 0 <= a, 0 <= b: empty when a >= b
Slice(t, a, b) == SubSeq(t, a + 1, Min(b, Len(t)))

RECURSIVE Concat(_)
Concat(ss) == IF ss = <<>> THEN <<>> ELSE Head(ss) \o Concat(Tail(ss))

\* the number of characters of t from offset i on that are in cs, up to the
\* first that is not
RunLen(t, i, cs) ==
    CHOOSE n \in 0..(Len(t) - i) :
        /\ \A j \in 1..n : t[i + j] \in cs
        /\ n = Len(t) - i \/ t[i + n + 1] \notin cs

\* the number of leading characters of t that are in cs
LStripLen(t, cs) == RunLen(t, 0, cs)

\* the number of trailing characters of t that are in cs
RStripLen(t, cs) ==
    CHOOSE n \in 0..Len(t) :
        /\ \A j \in 1..n : t[Len(t) - j + 1] \in cs
        /\ n = Len(t) \/ t[Len(t) - n] \notin cs

\* str.strip(chars)
StripChars(t, cs) ==
    LET a == LStripLen(t, cs)
    IN  IF a = Len(t) THEN <<>> ELSE SubSeq(t, a + 1, Len(t) - RStripLen(t, cs))

\* str.strip()
Strip(t) == StripChars(t, WS)

\* str.replace(a, b) for single characters
ReplaceChar(t, a, b) == [i \in 1..Len(t) |-> IF t[i] = a THEN b ELSE t[i]]

\* the line boundaries of str.splitlines, among the characters of the model
LINE_ENDS == {"\n", "\r", "\f"}

RECURSIVE SplitFrom(_, _)
\* str.splitlines(keepends=True) of t from offset a, where a line begins;
\* "\r\n" is one terminator
SplitFrom(t, a) ==
    IF a >= Len(t) THEN <<>>
    ELSE LET n == RunLen(t, a, {c \in {t[j] : j \in 1..Len(t)} : c \notin LINE_ENDS})
             p == a + n
             b == IF p >= Len(t) THEN p
                  ELSE IF t[p + 1] = "\r" /\ p + 1 < Len(t) /\ t[p + 2] = "\n"
                       THEN p + 2 ELSE p + 1
         IN  <<Slice(t, a, b)>> \o SplitFrom(t, b)

SplitLinesKeepEnds(t) == SplitFrom(t, 0)

\* offsets[i] of the scanners: the offset at which line i begins
RECURSIVE LineOffsets(_, _)
LineOffsets(lines, pos) ==
    IF lines = <<>> THEN <<>>
    ELSE <<pos>> \o LineOffsets(Tail(lines), pos + Len(Head(lines)))

(***************************************************************************)
(* Regular expressions (the re module, as far as the patterns use it)      *)
(*                                                                         *)
(* Ends(re, t, i) is the sequence of offsets at which a match of re that   *)
(* begins at offset i of t can end, without repetitions, in the order in   *)
(* which the backtracking matcher tries them: its head is the end of the   *)
(* match re.match finds at i.                                              *)
(***************************************************************************)
Set(s) == [k |-> "set", s |-> s]                 \* [...]
NotSet(s) == [k |-> "nset", s |-> s]             \* [^...]
Lit(str) == [k |-> "lit", cs |-> Chars(str)]     \* literal text
Cat(rs) == [k |-> "cat", rs |-> rs]              \* r1 r2 ...
Alt(rs) == [k |-> "alt", rs |-> rs]              \* r1|r2|...
Rep(r, lo, hi) == [k |-> "rep", r |-> r, lo |-> lo, hi |-> hi, greedy |-> TRUE]
Lazy(r, lo, hi) == [k |-> "rep", r |-> r, lo |-> lo, hi |-> hi, greedy |-> FALSE]
INF == -1
Star(r) == Rep(r, 0, INF)                        \* r*
Plus(r) == Rep(r, 1, INF)                        \* r+
Opt(r) == Rep(r, 0, 1)                           \* r?
BOL == [k |-> "bol"]                             \* ^ under re.MULTILINE
EOL == [k |-> "eol"]                             \* $ under re.MULTILINE
EOS == [k |-> "eos"]                             \* $ without re.MULTILINE
WB == [k |-> "wb"]                               \* \b
DOT == NotSet({"\n"})                            \* .
ANY == NotSet({})                                \* . under re.DOTALL
SP == Set(WS)                                    \* \s

\* a \o b without the elements of b that a holds (a and b have no
\* repetitions of their own)
AppendNew(a, b) ==
    IF Len(b) = 0 THEN a
    ELSE IF Len(a) = 0 THEN b
         ELSE LET New(x) == \A k \in 1..Len(a) : a[k] # x IN a \o SelectSeq(b, New)

RECURSIVE FlatFrom(_, _, _)
FlatFrom(rr, k, acc) ==
    IF k > Len(rr) THEN acc ELSE FlatFrom(rr, k + 1, AppendNew(acc, rr[k]))

\* the offsets of the lists rr[1], rr[2], ... in that order, each offset at
\* its first place only
FlatNew(rr) == IF Len(rr) = 1 THEN rr[1] ELSE FlatFrom(rr, 1, <<>>)

IsWordAt(t, p) == p >= 0 /\ p < Len(t) /\ t[p + 1] \in WORD

RECURSIVE Ends(_, _, _)
RECURSIVE CatEnds(_, _, _, _)
RECURSIVE AltEnds(_, _, _)
RECURSIVE RepEnds(_, _, _, _)

Ends(re, t, i) ==
    CASE re.k = "set" -> IF i < Len(t) /\ t[i + 1] \in re.s THEN <<i + 1>> ELSE <<>>
      [] re.k = "nset" -> IF i < Len(t) /\ t[i + 1] \notin re.s THEN <<i + 1>> ELSE <<>>
      [] re.k = "lit" -> IF Slice(t, i, i + Len(re.cs)) = re.cs
                         THEN <<i + Len(re.cs)>> ELSE <<>>
      [] re.k = "bol" -> IF i = 0 \/ t[i] = "\n" THEN <<i>> ELSE <<>>
      [] re.k = "eol" -> IF i = Len(t) \/ t[i + 1] = "\n" THEN <<i>> ELSE <<>>
      [] re.k = "eos" -> IF i = Len(t) \/ (i = Len(t) - 1 /\ t[i + 1] = "\n")
                         THEN <<i>> ELSE <<>>
      [] re.k = "wb" -> IF IsWordAt(t, i - 1) # IsWordAt(t, i) THEN <<i>> ELSE <<>>
      [] re.k = "cat" -> CatEnds(re.rs, 1, t, <<i>>)
      [] re.k = "alt" -> AltEnds(re.rs, t, i)
      [] re.k = "rep" -> RepEnds(re, 0, t, i)

\* rs[j], rs[j+1], ... matched one after the other, cur being the ends of
\* rs[1], ..., rs[j-1]: for each of them, in order, the ends of rs[j] from it
CatEnds(rs, j, t, cur) ==
    IF j > Len(rs) \/ Len(cur) = 0 THEN cur
    ELSE CatEnds(rs, j + 1, t,
                 FlatNew([n \in 1..Len(cur) |-> Ends(rs[j], t, cur[n])] \o <<>>))

\* the alternatives are tried from left to right
AltEnds(rs, t, i) == FlatNew([n \in 1..Len(rs) |-> Ends(rs[n], t, i)] \o <<>>)

\* a repeated character class: every count from lo to the length of the run
\* (at most hi), the longest first when greedy
RunEnds(re, t, i) ==
    LET run == IF re.r.k = "set" THEN RunLen(t, i, re.r.s)
               ELSE RunLen(t, i, {c \in {t[j] : j \in 1..Len(t)} : c \notin re.r.s})
        most == IF re.hi = INF THEN run ELSE Min(run, re.hi)
    IN  IF most < re.lo THEN <<>>
        ELSE [n \in 1..(most - re.lo + 1) |->
                 IF re.greedy THEN i + most - n + 1 ELSE i + re.lo + n - 1]

\* re.r repeated, n repetitions done: a greedy repetition tries one more
\* repetition before it tries to stop, a lazy one stops first (no pattern
\* of the catalog repeats an expression that can match the empty string)
RepEnds(re, n, t, i) ==
    IF n = 0 /\ re.r.k \in {"set", "nset"} THEN RunEnds(re, t, i)
    ELSE LET es == Ends(re.r, t, i)
             more == IF re.hi = INF \/ n < re.hi
                     THEN FlatNew([m \in 1..Len(es) |-> RepEnds(re, n + 1, t, es[m])]
                                  \o <<>>)
                     ELSE <<>>
             stop == IF n >= re.lo THEN <<i>> ELSE <<>>
         IN  IF re.greedy THEN AppendNew(more, stop) ELSE AppendNew(stop, more)

\* re.match at offset i: the end of the match, or -1
MatchEnd(re, t, i) == LET es == Ends(re, t, i) IN IF es = <<>> THEN -1 ELSE Head(es)

RECURSIVE FindIterFrom(_, _, _, _)
\* re.finditer: the (start, end) of the non-overlapping matches, left to
\* right, me[p + 1] being the end of the match at offset p; the search resumes
\* where a match ended (after an empty match, one character on)
FindIterFrom(re, t, me, pos) ==
    LET found == {p \in pos..Len(t) : me[p + 1] >= 0}
    IN  IF found = {} THEN <<>>
        ELSE LET p == CHOOSE p \in found : \A q \in found : p <= q
                 e == me[p + 1]
             IN  <<<<p, e>>>> \o FindIterFrom(re, t, me, IF e > p THEN e ELSE p + 1)

FindIter(re, t) ==
    LET me == [n \in 1..(Len(t) + 1) |-> MatchEnd(re, t, n - 1)] \o <<>>
    IN  FindIterFrom(re, t, me, 0)

\* re.search(t) is not None
Search(re, t) == \E p \in 0..Len(t) : MatchEnd(re, t, p) >= 0

RECURSIVE CutAll(_, _, _)
\* t without the spans ms (in order, non-overlapping), read from offset pos
CutAll(t, ms, pos) ==
    IF ms = <<>> THEN Slice(t, pos, Len(t))
    ELSE Slice(t, pos, Head(ms)[1]) \o CutAll(t, Tail(ms), Head(ms)[2])

\* pat.sub('', t)
SubEmpty(re, t) == CutAll(t, FindIter(re, t), 0)

(***************************************************************************)
(* The pattern catalog of src/speaker_scraper.py                           *)
(***************************************************************************)
NameChars == Set(ALPHA \cup {"'"})                               \* [A-Za-z']
NameWord == Cat(<<Set(UPPER), Rep(Set(LOWER), 0, 3), Plus(NameChars)>>)
Hyphenated == Star(Cat(<<Lit("-"), Plus(NameChars)>>))           \* (?:-[A-Za-z']+)*
StateWord == Cat(<<Set(UPPER), Plus(Set(ALPHA))>>)               \* [A-Z][a-zA-Z]+
Aside == Opt(Cat(<<SP, Lit("("), Star(NotSet({")"})), Lit(")")>>))   \* (?:\s\([^)]*\))?

\* the first alternative: an honorific and a name
HonorificSpeaker ==
    Cat(<< Alt(<< Cat(<<Lit("M"), Alt(<<Lit("r"), Lit("rs"), Lit("s")>>), Lit(".")>>),
                  Lit("Miss"), Lit("Chairman"), Lit("Chairwoman"), Lit("HON."),
                  Lit("Dr.") >>),
           SP, Opt(Cat(<<Lit("Counsel"), SP>>)),
           Star(Cat(<<Set(UPPER), Lit("."), SP>>)),
           NameWord,
           Star(Cat(<<SP, Set(UPPER), Lit(".")>>)),
           Hyphenated,
           Star(Cat(<<SP, NameWord, Hyphenated>>)),
           Opt(Cat(<<SP, Lit("of"), SP, StateWord, Star(Cat(<<SP, StateWord>>))>>)),
           Opt(Cat(<<SP, Lit("[continuing]")>>)),
           Aside, Lit(".") >>)

ProTempore == Opt(Cat(<<SP, Lit("pro"), SP, Lit("tempore")>>))

\* the second alternative: a role of the chamber
RoleSpeaker ==
    Cat(<< Lit("The"), SP,
           Alt(<< Lit("CLERK"),
                  Cat(<<Lit("Acting"), SP, Lit("CHAIR")>>),
                  Cat(<<Lit("ACTING"), SP, Lit("CHAIR")>>),
                  Lit("CHAIR"),
                  Cat(<<Lit("CHAIRMAN"), ProTempore>>),
                  Cat(<<Lit("PRESIDING"), SP, Lit("OFFICER")>>),
                  Cat(<<Lit("SPEAKER"), ProTempore>>),
                  Cat(<<Lit("VICE"), SP, Lit("PRESIDENT")>>),
                  Cat(<<Lit("PRESIDENT"), SP, Lit("pro"), SP, Lit("tempore")>>),
                  Cat(<<Lit("ACTING"), SP, Lit("PRESIDENT"), SP, Lit("pro"), SP,
                        Lit("tempore")>>),
                  Cat(<<Lit("CHIEF"), SP, Lit("JUSTICE")>>) >>),
           Aside, Lit(".") >>)

SPEAKER_REGEX == Cat(<<BOL, Rep(SP, 1, 2), Alt(<<HonorificSpeaker, RoleSpeaker>>)>>)

RuleChars == Star(Set({" ", "_", "-"}))                          \* [ _\-]*
UNDERLINE_REGEX ==
    Alt(<< Cat(<<BOL, RuleChars, Rep(Lit("_"), 3, INF), RuleChars, EOL>>),
           Cat(<<BOL, RuleChars, Rep(Lit("-"), 3, INF), RuleChars, EOL>>) >>)

DOC_HEADER_REGEX ==
    Cat(<<BOL, Lit("[Congressional Record Volume"), Star(DOT), Lit("]"), EOL>>)

DATE_END_REGEX ==
    Cat(<<Rep(Set(DIGIT), 1, 2), Lit(", "), Rep(Set(DIGIT), 4, 4), Opt(Lit(".")), EOS>>)

EQUALS_REGEX ==
    Cat(<<BOL, Star(Set({" ", "\t"})), Rep(Lit("="), 5, INF), Star(DOT), EOL>>)

\* re.IGNORECASE on a literal
RECURSIVE AnyCaseFrom(_, _)
AnyCaseFrom(cs, j) ==
    IF j > Len(cs) THEN <<>>
    ELSE LET c == cs[j]
             both == IF \E n \in 1..26 : c \in {UpperSeq[n], LowerSeq[n]}
                     THEN LET n == CHOOSE n \in 1..26 : c \in {UpperSeq[n], LowerSeq[n]}
                          IN  {UpperSeq[n], LowerSeq[n]}
                     ELSE {c}
         IN  <<Set(both)>> \o AnyCaseFrom(cs, j + 1)
AnyCase(str) == Cat(AnyCaseFrom(Chars(str), 1))

EXTRAS_PATTERNS ==
    << Cat(<<Lit("("), Star(NotSet({")"})), Lit("asked and was given permission"),
             Star(NotSet({")"})), Lit(")"), Star(SP)>>),
       Rep(Set({"-", "_"}), 3, INF),
       Cat(<<Lit("{time}"), Star(SP), Rep(Set(DIGIT), 2, 4)>>),
       Cat(<<Lit("[Roll"), Star(NotSet({"]", "\r", "\n"})), Lit("]")>>),
       Cat(<<Lit("[[Page "), Rep(Set(ALPHA \cup DIGIT), 1, 10), Lit("]]")>>),
       Cat(<<AnyCase("<title>"), Lazy(ANY, 0, INF), AnyCase("</title>")>>),
       Cat(<<Lit("<"), Opt(Lit("/")), Plus(NotSet({">"})), Lit(">")>>) >>

RECURSIVE CleanFrom(_, _)
CleanFrom(t, j) ==
    IF j > Len(EXTRAS_PATTERNS) THEN t
    ELSE CleanFrom(SubEmpty(EXTRAS_PATTERNS[j], t), j + 1)

\* _clean_extraneous: every pattern is removed once, in the order of the list
_clean_extraneous(t) == CleanFrom(t, 1)

(***************************************************************************)
(* The line scanners of src/speaker_scraper.py                             *)
(***************************************************************************)
RECURSIVE StripNoteFrom(_, _, _)
StripNoteFrom(lines, j, skip) ==
    IF j > Len(lines) THEN <<>>
    ELSE IF MatchEnd(EQUALS_REGEX, lines[j], 0) >= 0
         THEN lines[j] \o StripNoteFrom(lines, j + 1, ~skip)
         ELSE IF skip THEN StripNoteFrom(lines, j + 1, skip)
              ELSE lines[j] \o StripNoteFrom(lines, j + 1, skip)

_strip_note_blocks(t) == StripNoteFrom(SplitLinesKeepEnds(t), 1, FALSE)

RECURSIVE Indent(_, _)
\* the indent loops: a space counts 1, a tab counts tab, up to the first
\* other character
Indent(ln, tab) ==
    IF ln = <<>> THEN 0
    ELSE IF Head(ln) = " " THEN 1 + Indent(Tail(ln), tab)
         ELSE IF Head(ln) = "\t" THEN tab + Indent(Tail(ln), tab)
              ELSE 0

TAB_WIDTH == 2
INDENT_THRESHOLD == 15

\* r"\b\w[\w'-]*\b"
WORD_REGEX == Cat(<<WB, Set(WORD), Star(Set(WORD \cup {"'", "-"})), WB>>)

\* condition 3 of _find_deeply_indented_titles on line ln: there are words
\* and at least half of them begin with an uppercase letter
MostlyCapitalised(ln) ==
    LET stripped == StripChars(ln, {"\r", "\n"})
        words == FindIter(WORD_REGEX, stripped)
        upper == {j \in 1..Len(words) : stripped[words[j][1] + 1] \in UPPER}
    IN  words # <<>> /\ Cardinality(upper) * 2 >= Len(words)

RECURSIVE TitleMarkersFrom(_, _, _)
TitleMarkersFrom(lines, offsets, i) ==
    IF i > Len(lines) THEN <<>>
    ELSE (IF /\ Strip(lines[i - 1]) = <<>>
             /\ Indent(lines[i], TAB_WIDTH) > TAB_WIDTH
             /\ MostlyCapitalised(lines[i])
          THEN <<<<offsets[i], offsets[i]>>>> ELSE <<>>)
         \o TitleMarkersFrom(lines, offsets, i + 1)

\* the lines are numbered from 1 here and from 0 in the code: range(1, n)
\* is 2..n
_find_deeply_indented_titles(t) ==
    LET lines == SplitLinesKeepEnds(t)
    IN  TitleMarkersFrom(lines, LineOffsets(lines, 0), 2)

RECURSIVE DateMarkersFrom(_, _, _)
DateMarkersFrom(lines, offsets, i) ==
    IF i > Len(lines) THEN <<>>
    ELSE (IF /\ Indent(lines[i], INDENT_THRESHOLD) >= INDENT_THRESHOLD
             /\ Search(DATE_END_REGEX, Strip(lines[i]))
          THEN <<<<offsets[i], offsets[i]>>>> ELSE <<>>)
         \o DateMarkersFrom(lines, offsets, i + 1)

_find_right_justified_dates(t) ==
    LET lines == SplitLinesKeepEnds(t)
    IN  DateMarkersFrom(lines, LineOffsets(lines, 0), 1)

(***************************************************************************)
(* The event scanner of scrape                                             *)
(*                                                                         *)
(* An event is the code's tuple (etype, start, end, m); m is used for its  *)
(* start and end only.  fam (the pattern family, in scan order) and seq    *)
(* (the place in the list before the sort) are history fields: no          *)
(* operation reads them.                                                   *)
(***************************************************************************)
Tag(ms, etype, fam) ==
    [j \in 1..Len(ms) |-> [etype |-> etype, start |-> ms[j][1], end |-> ms[j][2],
                           fam |-> fam, seq |-> 0]]

Numbered(es) == [j \in 1..Len(es) |-> [es[j] EXCEPT !.seq = j]]

\* events before events.sort
Collected(t) ==
    Numbered(   Tag(FindIter(SPEAKER_REGEX, t), "speaker", 1)
             \o Tag(FindIter(UNDERLINE_REGEX, t), "end", 2)
             \o Tag(FindIter(DOC_HEADER_REGEX, t), "end", 3)
             \o Tag(_find_deeply_indented_titles(t), "end", 4)
             \o Tag(_find_right_justified_dates(t), "end", 5)
             \o Tag(FindIter(EQUALS_REGEX, t), "end", 6))

RECURSIVE InsertBeforeEqual(_, _)
\* a sort that is not stable: e put before the elements with its own key
InsertBeforeEqual(sorted, e) ==
    IF sorted = <<>> THEN <<e>>
    ELSE IF Head(sorted).start < e.start
         THEN <<Head(sorted)>> \o InsertBeforeEqual(Tail(sorted), e)
         ELSE <<e>> \o sorted

RECURSIVE InsertByStart(_, _)
\* e put after every element of the sorted list whose key is not greater
InsertByStart(sorted, e) ==
    IF sorted = <<>> THEN <<e>>
    ELSE IF Head(sorted).start <= e.start
         THEN <<Head(sorted)>> \o InsertByStart(Tail(sorted), e)
         ELSE <<e>> \o sorted

RECURSIVE SortFrom(_, _, _)
SortFrom(es, j, sorted) ==
    IF j > Len(es) THEN sorted ELSE SortFrom(es, j + 1, InsertByStart(sorted, es[j]))

\* events.sort(key=lambda e: e[1]): list.sort is stable
SortByStart(es) == SortFrom(es, 1, <<>>)

(***************************************************************************)
(* scrape (src/speaker_scraper.py): the turn assembler                     *)
(*                                                                         *)
(* scrape is a generator: a step of the model is the code up to the loop   *)
(* (Prepare), one iteration of the loop over the events (OnSpeaker, OnEnd) *)
(* or the code after the loop (FinalSpeech).  A yielded pair is kept in    *)
(* turns with the offsets it was cut at (start, end: history fields).      *)
(***************************************************************************)
VARIABLES text, events, pos, current_speaker, speech_start, turns, pc

\* 4-clean_record_boilerplate.py: the speech field of one row, the text it
\* was loaded with (a history variable) and the number of runs of the script
\* over the row
VARIABLES input, speech, passes

\* 3-add_debate_titles.py, worker_process on the rows of one file:
\* speech_rows (their speech fields), offsets and cleaned_text; the locals of
\* find_titles (title_lines is lines, line_i is i + 1); sections; row, the
\* position of the loop over offsets; written, the rows given to the writer
VARIABLES speech_rows, offsets, cleaned_text, title_lines, line_i, offset,
          block, block_start, titles, sections, row, written, tpc

\* _strip_note_blocks and _clean_extraneous run on their own: given, the
\* text as it was passed; note_lines (lines), filtered and skip of
\* _strip_note_blocks (ln_i is the index of ln in lines); txt, the text of _clean_extraneous as
\* the loop rebinds it (pat_i is the index of pat in EXTRAS_PATTERNS);
\* result, the value returned
VARIABLES given, note_lines, ln_i, filtered, skip, txt, pat_i, result, spc

scrapeVars == <<text, events, pos, current_speaker, speech_start, turns, pc>>
filterVars == <<input, speech, passes>>
titleVars == <<speech_rows, offsets, cleaned_text, title_lines, line_i, offset,
               block, block_start, titles, sections, row, written, tpc>>
stripVars == <<given, note_lines, ln_i, filtered, skip, txt, pat_i, result, spc>>

\* remove_headers_with_fuzz run on its own: h_lines (lines), h_cleaned
\* (cleaned) and h_skip_next (skip_next); h_i is the index of line in lines
VARIABLES h_lines, h_i, h_skip_next, h_cleaned, hpc

\* levenshtein_leq1 called on its own: the arguments and the value returned
VARIABLES lev_a, lev_b, lev_out, lpc

\* one call of an API helper of the scrapers: rq_helper, the helper;
\* rq_attempt, the turn of its loop; rq_requests, the requests made so far;
\* rq_resp, the status of the last response; rq_all429, whether every
\* response so far was a 429
VARIABLES rq_helper, rq_attempt, rq_requests, rq_resp, rq_all429, rqpc

\* CRECB_scraper.py, worker in several threads: year_states and
\* year_states_lock (the thread that holds it, 0 for none); per thread its
\* place (w_pc), year and idx; the files written (pdf_files, xml_files) and
\* how often each year was initialised (year_inits)
VARIABLES year_states, year_states_lock, w_pc, w_year, w_idx, pdf_files,
          xml_files, year_inits

\* get_api_key in several threads: API_KEYS is 0..(n_keys - 1); _key_index
\* and _key_lock (the thread that holds it, 0 for none); per thread its place
\* (k_pc), its key and the calls it has made; handed, the keys in the order
\* in which the lock was taken
VARIABLES n_keys, _key_index, _key_lock, k_pc, k_key, k_calls, handed

\* CREC_scraper.py, scrape_day: pairs; the fetches still to complete
\* (d_pending); results; the two counters; the files written (d_files);
\* title_map; whether the fetches run in parallel
VARIABLES d_pairs, d_pending, d_results, d_item, html_counter, xml_counter,
          d_files, title_map, d_parallel, d_order, dpc

headerVars == <<h_lines, h_i, h_skip_next, h_cleaned, hpc>>
levVars == <<lev_a, lev_b, lev_out, lpc>>
retryVars == <<rq_helper, rq_attempt, rq_requests, rq_resp, rq_all429, rqpc>>
yearVars == <<year_states, year_states_lock, w_pc, w_year, w_idx, pdf_files,
              xml_files, year_inits>>
keyVars == <<n_keys, _key_index, _key_lock, k_pc, k_key, k_calls, handed>>
dayVars == <<d_pairs, d_pending, d_results, d_item, html_counter, xml_counter,
             d_files, title_map, d_parallel, d_order, dpc>>
restVars == <<headerVars, levVars, retryVars, yearVars, keyVars, dayVars>>
vars == <<scrapeVars, filterVars, titleVars, stripVars, restVars>>

\* remove_headers_with_fuzz is not running on its own
HeadersOff ==
    /\ h_lines = <<>>
    /\ h_i = 0
    /\ h_skip_next = FALSE
    /\ h_cleaned = <<>>
    /\ hpc = "off"

\* levenshtein_leq1 is not running on its own
LevOff ==
    /\ lev_a = <<>>
    /\ lev_b = <<>>
    /\ lev_out = FALSE
    /\ lpc = "off"

\* no API helper is running
RetryOff ==
    /\ rq_helper = "none"
    /\ rq_attempt = 0
    /\ rq_requests = 0
    /\ rq_resp = 0
    /\ rq_all429 = TRUE
    /\ rqpc = "off"

\* no worker of CRECB_scraper.py is running
YearsOff ==
    /\ year_states = <<>>
    /\ year_states_lock = 0
    /\ w_pc = <<>>
    /\ w_year = <<>>
    /\ w_idx = <<>>
    /\ pdf_files = {}
    /\ xml_files = {}
    /\ year_inits = <<>>

\* no thread is calling get_api_key
KeysOff ==
    /\ n_keys = 0
    /\ _key_index = 0
    /\ _key_lock = 0
    /\ k_pc = <<>>
    /\ k_key = <<>>
    /\ k_calls = <<>>
    /\ handed = <<>>

\* scrape_day is not running
DayOff ==
    /\ d_pairs = <<>>
    /\ d_pending = {}
    /\ d_results = <<>>
    /\ d_item = 0
    /\ html_counter = 0
    /\ xml_counter = 0
    /\ d_files = {}
    /\ title_map = {}
    /\ d_parallel = FALSE
    /\ d_order = <<>>
    /\ dpc = "off"

RestOff == HeadersOff /\ LevOff /\ RetryOff /\ YearsOff /\ KeysOff /\ DayOff

\* the state of the programs above, for each program run on its own
oldVars == <<scrapeVars, filterVars, titleVars, stripVars>>

\* neither _strip_note_blocks nor _clean_extraneous is running on its own
StrippersOff ==
    /\ given = <<>>
    /\ note_lines = <<>>
    /\ ln_i = 0
    /\ filtered = <<>>
    /\ skip = FALSE
    /\ txt = <<>>
    /\ pat_i = 0
    /\ result = <<>>
    /\ spc = "off"

\* worker_process is not running
TitlesOff ==
    /\ speech_rows = <<>>
    /\ offsets = <<>>
    /\ cleaned_text = <<>>
    /\ title_lines = <<>>
    /\ line_i = 0
    /\ offset = 0
    /\ block = <<>>
    /\ block_start = -1
    /\ titles = <<>>
    /\ sections = <<>>
    /\ row = 0
    /\ written = <<>>
    /\ tpc = "off"

\* None, for current_speaker (a text) and for speech_start (an offset)
NoSpeaker == <<"None">>
NoStart == -1

\* the transcripts given to scrape: up to MaxFrags fragments, one after the
\* other
MaxFrags == 3
Fragments ==
    { Chars(" Dr. AB. hi\n"),
      Chars(" Dr. CD J.. yo\n"),
      Chars("___\n"),
      Chars("\n"),
      Chars("   Big Day\n"),
      Chars("   ===== No\n"),
      Chars("note\n"),
      <<NBSP>> \o Chars("Dr. AB. Dr. CD. x\n"),
      Chars("\t\tDr. AB (\n---\n). z\n"),
      Chars("[Congressional Record Volume 1]\n               1, 2020\n") }

Transcripts ==
    UNION {{Concat(fs) : fs \in [1..n -> Fragments]} : n \in 0..MaxFrags}

\* the yielded pair for text[a:b], with a and b
Yield(speaker, a, b) ==
    [speaker |-> speaker,
     text |-> Strip(_clean_extraneous(Strip(Slice(text, a, b)))),
     start |-> a, end |-> b]

\* the label with its period kept
Label_KeepsPeriod(t, e) == Strip(Slice(t, e.start, e.end))

\* text[m.start():m.end()].strip()[:-1]
Label(t, e) ==
    LET matched == Strip(Slice(t, e.start, e.end))
    IN  SubSeq(matched, 1, Len(matched) - 1)

\* lines 199-202: the NOTE blocks removed, the no-break spaces replaced
Normalised(t) == ReplaceChar(_strip_note_blocks(t), NBSP, " ")

\* lines 204-225: the events of every family, sorted
Timeline(t) == SortByStart(Collected(t))

InitScrape ==
    /\ text \in Transcripts
    /\ events = <<>>
    /\ pos = 0
    /\ current_speaker = NoSpeaker
    /\ speech_start = NoStart
    /\ turns = <<>>
    /\ pc = "begin"
    /\ input = <<>>
    /\ speech = <<>>
    /\ passes = 0
    /\ TitlesOff
    /\ StrippersOff
    /\ RestOff

\* lines 199-228: the code before the loop
Prepare ==
    /\ pc = "begin"
    /\ text' = Normalised(text)
    /\ events' = Timeline(Normalised(text))
    /\ pos' = 1
    /\ pc' = "loop"
    /\ UNCHANGED <<current_speaker, speech_start, turns>>
    /\ UNCHANGED filterVars
    /\ UNCHANGED titleVars
    /\ UNCHANGED stripVars
    /\ UNCHANGED restVars

\* a speaker event that is ignored while a turn is open
OnSpeaker_IgnoredInTurn ==
    /\ pc = "loop"
    /\ pos <= Len(events)
    /\ events[pos].etype = "speaker"
    /\ IF current_speaker # NoSpeaker
       THEN UNCHANGED <<turns, current_speaker, speech_start>>
       ELSE /\ turns' = turns
            /\ speech_start' = events[pos].end
            /\ current_speaker' = Label(text, events[pos])
    /\ pos' = pos + 1
    /\ UNCHANGED <<text, events, pc>>
    /\ UNCHANGED filterVars
    /\ UNCHANGED titleVars
    /\ UNCHANGED stripVars
    /\ UNCHANGED restVars

\* a speaker event that lets the open turn go without emitting it
OnSpeaker_DropsOpenTurn ==
    /\ pc = "loop"
    /\ pos <= Len(events)
    /\ events[pos].etype = "speaker"
    /\ turns' = turns
    /\ speech_start' = events[pos].end
    /\ current_speaker' = Label(text, events[pos])
    /\ pos' = pos + 1
    /\ UNCHANGED <<text, events, pc>>
    /\ UNCHANGED filterVars
    /\ UNCHANGED titleVars
    /\ UNCHANGED stripVars
    /\ UNCHANGED restVars

\* lines 230-237: a speaker event
OnSpeaker ==
    /\ pc = "loop"
    /\ pos <= Len(events)
    /\ events[pos].etype = "speaker"
    /\ turns' = IF current_speaker # NoSpeaker
                THEN Append(turns, Yield(current_speaker, speech_start, events[pos].start))
                ELSE turns
    /\ speech_start' = events[pos].end
    /\ current_speaker' = Label(text, events[pos])
    /\ pos' = pos + 1
    /\ UNCHANGED <<text, events, pc>>
    /\ UNCHANGED filterVars
    /\ UNCHANGED titleVars
    /\ UNCHANGED stripVars
    /\ UNCHANGED restVars

\* an end event that cuts the turn at the end of the text, as the code after
\* the loop does
OnEnd_CutAtTextEnd ==
    /\ pc = "loop"
    /\ pos <= Len(events)
    /\ events[pos].etype # "speaker"
    /\ IF current_speaker # NoSpeaker
       THEN /\ turns' = Append(turns, Yield(current_speaker, speech_start, Len(text)))
            /\ current_speaker' = NoSpeaker
            /\ speech_start' = NoStart
       ELSE UNCHANGED <<turns, current_speaker, speech_start>>
    /\ pos' = pos + 1
    /\ UNCHANGED <<text, events, pc>>
    /\ UNCHANGED filterVars
    /\ UNCHANGED titleVars
    /\ UNCHANGED stripVars
    /\ UNCHANGED restVars

\* an end event that emits the turn and leaves it open after the marker
OnEnd_StaysOpen ==
    /\ pc = "loop"
    /\ pos <= Len(events)
    /\ events[pos].etype # "speaker"
    /\ IF current_speaker # NoSpeaker
       THEN /\ turns' = Append(turns, Yield(current_speaker, speech_start, events[pos].start))
            /\ speech_start' = events[pos].end
            /\ UNCHANGED current_speaker
       ELSE UNCHANGED <<turns, current_speaker, speech_start>>
    /\ pos' = pos + 1
    /\ UNCHANGED <<text, events, pc>>
    /\ UNCHANGED filterVars
    /\ UNCHANGED titleVars
    /\ UNCHANGED stripVars
    /\ UNCHANGED restVars

\* an end event that emits a turn whether or not one is open
OnEnd_Unguarded ==
    /\ pc = "loop"
    /\ pos <= Len(events)
    /\ events[pos].etype # "speaker"
    /\ turns' = Append(turns, Yield(current_speaker, Max(speech_start, 0), events[pos].start))
    /\ current_speaker' = NoSpeaker
    /\ speech_start' = NoStart
    /\ pos' = pos + 1
    /\ UNCHANGED <<text, events, pc>>
    /\ UNCHANGED filterVars
    /\ UNCHANGED titleVars
    /\ UNCHANGED stripVars
    /\ UNCHANGED restVars

\* lines 238-244: an end event
OnEnd ==
    /\ pc = "loop"
    /\ pos <= Len(events)
    /\ events[pos].etype # "speaker"
    /\ IF current_speaker # NoSpeaker
       THEN /\ turns' = Append(turns, Yield(current_speaker, speech_start, events[pos].start))
            /\ current_speaker' = NoSpeaker
            /\ speech_start' = NoStart
       ELSE UNCHANGED <<turns, current_speaker, speech_start>>
    /\ pos' = pos + 1
    /\ UNCHANGED <<text, events, pc>>
    /\ UNCHANGED filterVars
    /\ UNCHANGED titleVars
    /\ UNCHANGED stripVars
    /\ UNCHANGED restVars

\* the code after the loop, cutting the last turn at the last event
FinalSpeech_CutAtLastEvent ==
    /\ pc = "loop"
    /\ pos > Len(events)
    /\ turns' = IF current_speaker # NoSpeaker /\ speech_start # NoStart
                THEN Append(turns, Yield(current_speaker, speech_start,
                                         Max(speech_start, Last(events).end)))
                ELSE turns
    /\ pc' = "done"
    /\ UNCHANGED <<text, events, pos, current_speaker, speech_start>>
    /\ UNCHANGED filterVars
    /\ UNCHANGED titleVars
    /\ UNCHANGED stripVars
    /\ UNCHANGED restVars

\* lines 246-250: the events are exhausted
FinalSpeech ==
    /\ pc = "loop"
    /\ pos > Len(events)
    /\ turns' = IF current_speaker # NoSpeaker /\ speech_start # NoStart
                THEN Append(turns, Yield(current_speaker, speech_start, Len(text)))
                ELSE turns
    /\ pc' = "done"
    /\ UNCHANGED <<text, events, pos, current_speaker, speech_start>>
    /\ UNCHANGED filterVars
    /\ UNCHANGED titleVars
    /\ UNCHANGED stripVars
    /\ UNCHANGED restVars

NextScrape == Prepare \/ OnSpeaker \/ OnEnd \/ FinalSpeech

SpecScrape == InitScrape /\ [][NextScrape]_vars

(***************************************************************************)
(* 4-clean_record_boilerplate.py: the lines that hold the target phrase,   *)
(* up to one wrong character, are taken out of the speech of a row.        *)
(***************************************************************************)
TARGET == Chars("CONGRESSIONAL RECORD")
T_LEN == Len(TARGET)

\* U+00DF, the lowercase letter whose uppercase form is the two letters SS
ESZETT == "sz"

\* str.upper of one character
UpperOf(c) ==
    IF c \in LOWER THEN <<UpperSeq[CHOOSE n \in 1..26 : LowerSeq[n] = c]>>
    ELSE IF c = ESZETT THEN <<"S", "S">>
    ELSE <<c>>

\* str.upper, on the characters of the model
Upper(t) == Concat([i \in 1..Len(t) |-> UpperOf(t[i])])

\* a line of str.splitlines(keepends=True) without its terminator
DropEnd(ln) ==
    LET n == Len(ln)
    IN  IF n >= 2 /\ ln[n - 1] = "\r" /\ ln[n] = "\n" THEN SubSeq(ln, 1, n - 2)
        ELSE IF n >= 1 /\ ln[n] \in LINE_ENDS THEN SubSeq(ln, 1, n - 1)
        ELSE ln

\* str.splitlines()
SplitLines(t) ==
    LET ks == SplitLinesKeepEnds(t)
    IN  [n \in 1..Len(ks) |-> DropEnd(ks[n])]

RECURSIVE JoinFrom(_, _, _)
JoinFrom(sep, ls, acc) ==
    IF ls = <<>> THEN acc ELSE JoinFrom(sep, Tail(ls), acc \o sep \o Head(ls))

\* sep.join(ls)
Join(sep, ls) == IF ls = <<>> THEN <<>> ELSE JoinFrom(sep, Tail(ls), Head(ls))

\* t without the character at offset i
Without(t, i) == Slice(t, 0, i) \o Slice(t, i + 1, Len(t))

\* one wrong character only: strings of two lengths are never near
levenshtein_leq1_SameLengthOnly(a, b) ==
    Len(a) = Len(b) /\ Cardinality({n \in 1..Len(a) : a[n] # b[n]}) <= 1

levenshtein_leq1(a, b) ==
    IF a = b THEN TRUE
    ELSE LET la == Len(a)
             lb == Len(b)
         IN  IF la - lb > 1 \/ lb - la > 1 THEN FALSE
             ELSE IF la = lb
                  THEN Cardinality({n \in 1..la : a[n] # b[n]}) <= 1
                  ELSE LET short == IF la > lb THEN b ELSE a
                           long == IF la > lb THEN a ELSE b
                       IN  \E i \in 0..(Len(long) - 1) : Without(long, i) = short

\* re.sub(r"[^A-Z ]", "", window)
WindowClean(window) ==
    LET Kept(c) == c \in UPPER \cup {" "}
    IN  SelectSeq(window, Kept)

\* the windows of one length only
line_contains_fuzzy_target_OneLength(line) ==
    LET up == Upper(line)
    IN  /\ T_LEN <= Len(up)
        /\ \E i \in 0..(Len(up) - T_LEN) :
              levenshtein_leq1(WindowClean(Slice(up, i, i + T_LEN)), TARGET)

line_contains_fuzzy_target(line) ==
    LET up == Upper(line)
    IN  \E L \in {T_LEN - 1, T_LEN, T_LEN + 1} :
           /\ ~(L <= 0 \/ L > Len(up))
           /\ \E i \in 0..(Len(up) - L) :
                 levenshtein_leq1(WindowClean(Slice(up, i, i + L)), TARGET)

clean_speech_text(t) ==
    LET Cleaned(line) == ~line_contains_fuzzy_target(line)
    IN  Join(<<"\n">>, SelectSeq(SplitLines(t), Cleaned))

\* the most lines of a speech, and the most runs of the script over a row
MaxLines == 2
MaxPasses == 2

\* lines of speeches: the phrase, the phrase in a sentence, the phrase with
\* one and with two wrong characters, with punctuation in it, other lines
LineBodies ==
    { Chars("CONGRESSIONAL RECORD"),
      Chars("the Congressional Record, p. 5"),
      Chars("CONGRESSIOVAL RECORD"),
      Chars("CONGRESIONAL RECORD"),
      Chars("CONGRESSIONAL  RECORD"),
      Chars("CONGRESSI0NAL-RECORD"),
      Chars("CONGRESIONAL REC0RD"),
      Chars("CONGRESSIONAL - RECORD"),
      Chars("C.O.N.G.R.E.S.S.I.O.N.A.L RECORD"),
      Chars("CONGRESSI") \o <<ESZETT>> \o Chars("NAL RECORD"),
      Chars("I yield."),
      <<>> }

Terminators == { <<"\n">>, <<"\r", "\n">> }

RECURSIVE SpeechesOf(_)
\* the speeches of n lines, every line with its terminator
SpeechesOf(n) ==
    IF n = 0 THEN { <<>> }
    ELSE { s \o b \o e : s \in SpeechesOf(n - 1), b \in LineBodies, e \in Terminators }

\* a speech, with or without the terminator of its last line
Speeches ==
    LET whole == UNION { SpeechesOf(n) : n \in 0..MaxLines }
    IN  whole \cup { SubSeq(s, 1, Len(s) - 1) : s \in { w \in whole : w # <<>> } }

InitFilter ==
    /\ input \in Speeches
    /\ speech = input
    /\ passes = 0
    /\ text = <<>>
    /\ events = <<>>
    /\ pos = 0
    /\ current_speaker = NoSpeaker
    /\ speech_start = NoStart
    /\ turns = <<>>
    /\ pc = "filter"
    /\ TitlesOff
    /\ StrippersOff
    /\ RestOff

\* lines 85-91, for one row: row["speech"] = clean_speech_text(speech)
worker ==
    /\ pc = "filter"
    /\ passes < MaxPasses
    /\ speech' = clean_speech_text(speech)
    /\ passes' = passes + 1
    /\ UNCHANGED input
    /\ UNCHANGED scrapeVars
    /\ UNCHANGED stripVars
    /\ UNCHANGED restVars
    /\ UNCHANGED titleVars
    /\ UNCHANGED stripVars
    /\ UNCHANGED restVars

NextFilter == worker

SpecFilter == InitFilter /\ [][NextFilter]_vars

(***************************************************************************)
(* 3-add_debate_titles.py: the functions on lines and tokens.              *)
(***************************************************************************)
\* characters of the model that are not ASCII: U+200B, U+200C, U+200D,
\* U+00AD, U+2011, and the em and en dashes
ZWSP == "zwsp"
ZWNJ == "zwnj"
ZWJ == "zwj"
SHY == "shy"
NBHY == "nbhy"
EMDASH == "emdash"
ENDASH == "endash"

\* the grave accent
BACKTICK == "backtick"

\* str.lower of one character
LowerOf(c) ==
    IF c \in UPPER THEN LowerSeq[CHOOSE n \in 1..26 : UpperSeq[n] = c] ELSE c

\* str.lower, on the characters of the model
Lower(t) == [i \in 1..Len(t) |-> LowerOf(t[i])]

\* the characters of t that are in cs: re.sub(r"[^..]", "", t)
Only(t, cs) == LET In(c) == c \in cs IN SelectSeq(t, In)

\* sub in t
Contains(t, sub) ==
    \E i \in 0..(Len(t) - Len(sub)) : SubSeq(t, i + 1, i + Len(sub)) = sub

\* str.startswith
StartsWith(t, pre) == Len(pre) <= Len(t) /\ SubSeq(t, 1, Len(pre)) = pre

RECURSIVE RunsFrom(_, _, _)
\* the maximal runs of characters of cs in t, from offset a on
RunsFrom(t, a, cs) ==
    IF a >= Len(t) THEN <<>>
    ELSE IF t[a + 1] \in cs
         THEN LET n == RunLen(t, a, cs)
              IN  <<Slice(t, a, a + n)>> \o RunsFrom(t, a + n, cs)
         ELSE LET other == {t[j] : j \in 1..Len(t)} \ cs
              IN  RunsFrom(t, a + RunLen(t, a, other), cs)

\* re.findall(r"[A-Za-z]+", t)
AlphaRuns(t) == RunsFrom(t, 0, ALPHA)

\* str.split()
Split(t) == RunsFrom(t, 0, {t[j] : j \in 1..Len(t)} \ WS)

normalize_ocr(line) ==
    LET kept == Only(line, {line[j] : j \in 1..Len(line)} \ {ZWSP, ZWNJ, ZWJ, SHY, NBHY})
    IN  ReplaceChar(ReplaceChar(kept, EMDASH, "-"), ENDASH, "-")

TOKEN_EDGE ==
    {",", ".", ";", ":", "!", "?", EMDASH, ENDASH, "-", "(", ")", "[", "]",
     "{", "}", "<", ">", "\"", "'", BACKTICK}

normalize_token(token) == StripChars(token, TOKEN_EDGE)

is_allcaps_alpha_word(token) ==
    LET cleaned == normalize_token(token)
    IN  IF Len(Only(cleaned, ALPHA)) < 2 THEN FALSE
        ELSE IF \E j \in 1..Len(cleaned) : cleaned[j] \in LOWER THEN FALSE
        ELSE \E j \in 1..Len(cleaned) : cleaned[j] \in UPPER

RECURSIVE CountLetters(_, _, _, _)
\* the loop of percent_uppercase_alpha over the tokens: acc is the pair of
\* len(upper) and len(letters)
CountLetters(tokens, j, skip_words, acc) ==
    IF j > Len(tokens) THEN acc
    ELSE LET base == Only(tokens[j], ALPHA)
         IN  IF Lower(base) \in skip_words
             THEN CountLetters(tokens, j + 1, skip_words, acc)
             ELSE CountLetters(tokens, j + 1, skip_words,
                               <<acc[1] + Len(Only(base, UPPER)), acc[2] + Len(base)>>)

\* the quotient len(upper) / len(letters) as the pair of its terms; 0.0 is
\* the pair <<0, 0>>
percent_uppercase_alpha(line, skip_words) ==
    CountLetters(Split(line), 1, skip_words, <<0, 0>>)

\* pct >= num / den, for a quotient of percent_uppercase_alpha
AtLeast(pct, num, den) == pct[2] > 0 /\ pct[1] * den >= num * pct[2]

BOILERPLATE_KEYS ==
    {Chars("gpo"), Chars("authenticated"), Chars("authentication"),
     Chars("authentic"), Chars("information")}

exclude_line(line) ==
    LET l == Lower(line)
        cleaned == Only(l, LOWER)
        words == AlphaRuns(l)
    IN  IF Contains(cleaned, Chars("congressionalrecord")) THEN TRUE
        ELSE IF cleaned \in {Chars("usgovernment"), Chars("usgoverment")} THEN TRUE
        ELSE IF words # <<>> /\ \A j \in 1..Len(words) : words[j] \in BOILERPLATE_KEYS
             THEN TRUE
             ELSE FALSE

\* the length of the longest common run of a from offset i and b from
\* offset j, inside a[:ahi] and b[:bhi]
CommonRun(a, b, i, j, ahi, bhi) ==
    CHOOSE n \in 0..Min(ahi - i, bhi - j) :
        /\ \A m \in 1..n : a[i + m] = b[j + m]
        /\ n = Min(ahi - i, bhi - j) \/ a[i + n + 1] # b[j + n + 1]

\* SequenceMatcher.find_longest_match without junk: the longest block common
\* to a[alo:ahi] and b[blo:bhi], the one that starts earliest in a and, of
\* those, earliest in b; <<i, j, k>>, k = 0 when there is none
find_longest_match(a, b, alo, ahi, blo, bhi) ==
    LET same == {pq \in (alo..(ahi - 1)) \X (blo..(bhi - 1)) : a[pq[1] + 1] = b[pq[2] + 1]}
        runs == {<<pq[1], pq[2], CommonRun(a, b, pq[1], pq[2], ahi, bhi)>> : pq \in same}
    IN  IF runs = {} THEN <<alo, blo, 0>>
        ELSE LET k == CHOOSE x \in {r[3] : r \in runs} : \A r \in runs : r[3] <= x
                 is == {r[1] : r \in {q \in runs : q[3] = k}}
                 i == CHOOSE x \in is : \A y \in is : x <= y
                 js == {r[2] : r \in {q \in runs : q[3] = k /\ q[1] = i}}
                 j == CHOOSE x \in js : \A y \in js : x <= y
             IN  <<i, j, k>>

RECURSIVE MatchedIn(_, _, _, _, _, _)
\* the sum of the sizes of get_matching_blocks over a[alo:ahi] and b[blo:bhi]
MatchedIn(a, b, alo, ahi, blo, bhi) ==
    IF alo >= ahi \/ blo >= bhi THEN 0
    ELSE LET m == find_longest_match(a, b, alo, ahi, blo, bhi)
         IN  IF m[3] = 0 THEN 0
             ELSE m[3] + MatchedIn(a, b, alo, m[1], blo, m[2])
                       + MatchedIn(a, b, m[1] + m[3], ahi, m[2] + m[3], bhi)

\* SequenceMatcher(None, a, b).ratio() as the pair of 2 * matches and
\* len(a) + len(b); the ratio of two empty strings is 1.0
fuzzy_match(a, b) ==
    IF Len(a) + Len(b) = 0 THEN <<1, 1>>
    ELSE <<2 * MatchedIn(a, b, 0, Len(a), 0, Len(b)), Len(a) + Len(b)>>

\* ratio >= num / den
RatioAtLeast(ratio, num, den) == ratio[1] * den >= num * ratio[2]

DigitSeq == Chars("0123456789")

\* int(d) for a string of ASCII digits
RECURSIVE IntOf(_)
IntOf(d) ==
    IF d = <<>> THEN 0
    ELSE 10 * IntOf(SubSeq(d, 1, Len(d) - 1))
         + (CHOOSE v \in 0..9 : DigitSeq[v + 1] = d[Len(d)])

HEADER_KEYS ==
    {Chars("AUTHENTICATED"), Chars("AUTHENTICATE"), Chars("AUTHENTICATION"),
     Chars("AUTHENTIC"), Chars("INFORMATION"), Chars("GPO")}

\* lines 113-120: the line after a chamber header begins with a word in
\* capitals
SkippedAfterHeader(line) ==
    LET alpha == AlphaRuns(line)
    IN  /\ alpha # <<>>
        /\ LET w == alpha[1]
           IN  \/ (\A j \in 1..Len(w) : w[j] \in UPPER) /\ Len(w) >= 3
               \/ Len(w) >= 6 /\ Len(Only(w, LOWER)) <= 1

RECURSIVE HeadersFrom(_, _, _, _)
\* the loop of remove_headers_with_fuzz from line j on
HeadersFrom(lines, j, skip_next, cleaned) ==
    IF j > Len(lines) THEN cleaned
    ELSE LET line == normalize_ocr(lines[j])
             stripped == Strip(line)
             up == Upper(stripped)
             words == AlphaRuns(up)
         IN  IF /\ Len(stripped) = 4
                /\ \A n \in 1..4 : stripped[n] \in DIGIT
                /\ 1873 <= IntOf(stripped) /\ IntOf(stripped) <= 1994
             THEN HeadersFrom(lines, j + 1, skip_next, cleaned)
             ELSE IF Contains(up, Chars("CONGRESSIONAL RECORD"))
             THEN HeadersFrom(lines, j + 1, skip_next, cleaned)
             ELSE IF RatioAtLeast(fuzzy_match(up, Chars("HOUSE OF REPRESENTATIVES")), 90, 100)
             THEN HeadersFrom(lines, j + 1, TRUE, cleaned)
             ELSE IF RatioAtLeast(fuzzy_match(up, Chars("SENATE")), 83, 100)
             THEN HeadersFrom(lines, j + 1, TRUE, cleaned)
             ELSE IF RatioAtLeast(fuzzy_match(up, Chars("CONGRESSIONAL RECORD")), 90, 100)
             THEN HeadersFrom(lines, j + 1, skip_next, cleaned)
             ELSE IF words # <<>> /\ \A n \in 1..Len(words) : words[n] \in HEADER_KEYS
             THEN HeadersFrom(lines, j + 1, skip_next, cleaned)
             ELSE IF skip_next /\ SkippedAfterHeader(line)
             THEN HeadersFrom(lines, j + 1, FALSE, cleaned)
             ELSE HeadersFrom(lines, j + 1, FALSE, Append(cleaned, line))

remove_headers_with_fuzz(t) ==
    Join(<<"\n">>, HeadersFrom(SplitLines(t), 1, FALSE, <<>>))

\* normalize_for_compare: s.strip().upper() of the text with its runs of
\* whitespace made one space
RECURSIVE CollapseFrom(_, _)
CollapseFrom(t, a) ==
    IF a >= Len(t) THEN <<>>
    ELSE IF t[a + 1] \in WS
         THEN <<" ">> \o CollapseFrom(t, a + RunLen(t, a, WS))
         ELSE LET n == RunLen(t, a, {t[j] : j \in 1..Len(t)} \ WS)
              IN  Slice(t, a, a + n) \o CollapseFrom(t, a + n)

\* the normal form without s.strip()
normalize_for_compare_Untrimmed(str) == Upper(CollapseFrom(normalize_ocr(str), 0))

normalize_for_compare(str) == Upper(Strip(CollapseFrom(normalize_ocr(str), 0)))

remove_assigned_title(t, assigned_title) ==
    IF assigned_title = <<>> THEN t
    ELSE LET norm_title == normalize_for_compare(assigned_title)
             Stays(line) == ~StartsWith(normalize_for_compare(line), norm_title)
         IN  Join(<<"\n">>, SelectSeq(SplitLines(t), Stays))

(***************************************************************************)
(* worker_process: the rows are joined, the headers removed, the titles    *)
(* found line by line, the sections cut, and every row given its title.    *)
(***************************************************************************)
\* the most rows of a file
MaxRows == 2

\* the speech fields of rows
RowSpeeches ==
    { Chars("BIG DAY NOW"),
      Chars("Mr. SPEAKER, I RISE TODAY"),
      Chars("U.S. GOVERNMENT"),
      Chars("ADJOURNMENT"),
      Chars("ABCDEFgh\nBIG DAY NOW\nAND THEN SOME"),
      Chars("SENATE\nMONDAY NEXT\nBIG DAY NOW\nU.S. GOVERNMENT"),
      Chars("  big") \o <<ZWSP>> \o Chars(" day\tnow, then\nBIG DAY\nMs. JONES OF THE HOUSE\nU.S. GOVERNMENT"),
      Chars("1900\nBIG DAY NOW\n\nI yield."),
      Chars("BIG DAY NOW\n\nI yield."),
      Chars("BIG DAY NOW\n\n\nBIG DAY NOW\nEND") }

RECURSIVE RowsOf(_)
RowsOf(n) ==
    IF n = 0 THEN { <<>> }
    ELSE { Append(rs, r) : rs \in RowsOf(n - 1), r \in RowSpeeches }

Files == UNION { RowsOf(n) : n \in 1..MaxRows }

RECURSIVE Reconstruct(_, _, _, _)
\* lines 216-220: <<reconstructed, offsets>>
Reconstruct(rows, idx, reconstructed, offs) ==
    IF idx > Len(rows) THEN <<reconstructed, offs>>
    ELSE Reconstruct(rows, idx + 1, reconstructed \o rows[idx] \o <<"\n", "\n">>,
                     Append(offs, Len(reconstructed)))

\* "".join(x[0] for x in block)
BlockText(b) == Concat([n \in 1..Len(b) |-> b[n].line])

\* block_text.startswith(("Mr.", "Ms.", "Mrs."))
Courtesy(b) ==
    LET block_text == SubSeq(BlockText(b), LStripLen(BlockText(b), WS) + 1, Len(BlockText(b)))
    IN  \E pre \in {Chars("Mr."), Chars("Ms."), Chars("Mrs.")} : StartsWith(block_text, pre)

\* a closed block is put among the titles whatever it begins with
CloseBlock_Unchecked(ts, b, start, by) ==
    Append(ts, [text |-> BlockText(b), start |-> start, end |-> Last(b).end, by |-> by])

\* the titles after the block b is closed: it is left out when it begins with
\* a courtesy title (by: the path that closed it, a history field)
CloseBlock(ts, b, start, by) ==
    IF Courtesy(b) THEN ts
    ELSE Append(ts, [text |-> BlockText(b), start |-> start, end |-> Last(b).end, by |-> by])

\* the sections begin where the title begins
extract_sections_FromTitleStart(t, ts) ==
    [n \in 1..Len(ts) |->
        [title |-> Strip(ts[n].text),
         start |-> ts[n].start,
         end |-> IF n < Len(ts) THEN ts[n + 1].start ELSE Len(t)]]

extract_sections(t, ts) ==
    [n \in 1..Len(ts) |->
        [title |-> Strip(ts[n].text),
         start |-> ts[n].end,
         end |-> IF n < Len(ts) THEN ts[n + 1].start ELSE Len(t)]]

\* lines 259-263: the title of the first section that holds p
Assigned(secs, p) ==
    IF \E n \in 1..Len(secs) : secs[n].start <= p /\ p < secs[n].end
    THEN LET n == CHOOSE n \in 1..Len(secs) :
                     /\ secs[n].start <= p /\ p < secs[n].end
                     /\ \A m \in 1..(n - 1) : ~(secs[m].start <= p /\ p < secs[m].end)
         IN  Strip(secs[n].title)
    ELSE <<>>

\* the line met, with offsets taken after offset was advanced
ThisLine_AdvancedFirst ==
    [line |-> title_lines[line_i], start |-> offset + Len(title_lines[line_i]),
     end |-> offset + 2 * Len(title_lines[line_i])]

\* the line met by the loop of find_titles, with its offsets
ThisLine == [line |-> title_lines[line_i], start |-> offset,
             end |-> offset + Len(title_lines[line_i])]

\* len(re.findall(r"[A-Za-z]", s))
AlphaChars(str) == Len(Only(str, ALPHA))

SKIP_WORDS == {Chars("report")}

\* lines 145-152: the look-ahead past the blank lines after line n
LookAhead(lines, n) ==
    LET rest == {j \in (n + 1)..Len(lines) : Strip(lines[j]) # <<>>}
    IN  /\ rest # {}
        /\ LET j == CHOOSE j \in rest : \A k \in rest : j <= k
               look == Strip(lines[j])
           IN  /\ AlphaChars(look) >= 8
               /\ AtLeast(percent_uppercase_alpha(look, SKIP_WORDS), 60, 100)

\* lines 173-178
is_strong(stripped) ==
    /\ Len(SelectSeq(Split(stripped), LAMBDA w : \E j \in 1..Len(w) : w[j] \in ALPHA)) >= 2
    /\ AtLeast(percent_uppercase_alpha(stripped, SKIP_WORDS), 60, 100)
    /\ AlphaChars(stripped) >= 8

\* line 179
is_short_final(stripped) ==
    /\ Len(SelectSeq(Split(stripped), LAMBDA w : \E j \in 1..Len(w) : w[j] \in ALPHA)) = 1
    /\ Len(SelectSeq(Split(stripped), is_allcaps_alpha_word)) >= 1

InitTitles ==
    /\ speech_rows \in Files
    /\ offsets = <<>>
    /\ cleaned_text = <<>>
    /\ title_lines = <<>>
    /\ line_i = 0
    /\ offset = 0
    /\ block = <<>>
    /\ block_start = -1
    /\ titles = <<>>
    /\ sections = <<>>
    /\ row = 0
    /\ written = <<>>
    /\ tpc = "begin"
    /\ text = <<>>
    /\ events = <<>>
    /\ pos = 0
    /\ current_speaker = NoSpeaker
    /\ speech_start = NoStart
    /\ turns = <<>>
    /\ pc = "titles"
    /\ input = <<>>
    /\ speech = <<>>
    /\ passes = 0
    /\ StrippersOff
    /\ RestOff

\* lines 214-222 and 131-135: the rows are joined, the headers removed, and
\* find_titles begins
Load ==
    /\ tpc = "begin"
    /\ LET r == Reconstruct(speech_rows, 1, <<>>, <<>>)
           c == remove_headers_with_fuzz(r[1])
       IN  /\ offsets' = r[2]
           /\ cleaned_text' = c
           /\ title_lines' = SplitLinesKeepEnds(c)
    /\ line_i' = 1
    /\ offset' = 0
    /\ block' = <<>>
    /\ block_start' = -1
    /\ titles' = <<>>
    /\ tpc' = "titles"
    /\ UNCHANGED <<speech_rows, sections, row, written>>
    /\ UNCHANGED scrapeVars
    /\ UNCHANGED stripVars
    /\ UNCHANGED restVars
    /\ UNCHANGED filterVars

\* lines 144-163: a blank line while a block is open
TitleBlank ==
    /\ tpc = "titles"
    /\ line_i <= Len(title_lines)
    /\ Strip(ThisLine.line) = <<>> /\ block # <<>>
    /\ IF LookAhead(title_lines, line_i)
       THEN /\ block' = Append(block, ThisLine)
            /\ titles' = titles
       ELSE /\ titles' = CloseBlock(titles, block, block_start, "blank")
            /\ block' = <<>>
    /\ offset' = ThisLine.end
    /\ line_i' = line_i + 1
    /\ UNCHANGED <<speech_rows, offsets, cleaned_text, title_lines, block_start, sections, row, written, tpc>>
    /\ UNCHANGED scrapeVars
    /\ UNCHANGED stripVars
    /\ UNCHANGED restVars
    /\ UNCHANGED filterVars

\* a line of boilerplate that closes the open block and drops it
TitleBoilerplate_Discards ==
    /\ tpc = "titles"
    /\ line_i <= Len(title_lines)
    /\ ~(Strip(ThisLine.line) = <<>> /\ block # <<>>)
    /\ exclude_line(ThisLine.line)
    /\ titles' = titles
    /\ block' = <<>>
    /\ offset' = ThisLine.end
    /\ line_i' = line_i + 1
    /\ UNCHANGED <<speech_rows, offsets, cleaned_text, title_lines, block_start, sections, row, written, tpc>>
    /\ UNCHANGED scrapeVars
    /\ UNCHANGED stripVars
    /\ UNCHANGED restVars
    /\ UNCHANGED filterVars

\* lines 165-171: a line of boilerplate
TitleBoilerplate ==
    /\ tpc = "titles"
    /\ line_i <= Len(title_lines)
    /\ ~(Strip(ThisLine.line) = <<>> /\ block # <<>>)
    /\ exclude_line(ThisLine.line)
    /\ titles' = IF block # <<>> THEN CloseBlock(titles, block, block_start, "boilerplate")
                 ELSE titles
    /\ block' = <<>>
    /\ offset' = ThisLine.end
    /\ line_i' = line_i + 1
    /\ UNCHANGED <<speech_rows, offsets, cleaned_text, title_lines, block_start, sections, row, written, tpc>>
    /\ UNCHANGED scrapeVars
    /\ UNCHANGED stripVars
    /\ UNCHANGED restVars
    /\ UNCHANGED filterVars

\* lines 173-192: any other line
TitleLine ==
    /\ tpc = "titles"
    /\ line_i <= Len(title_lines)
    /\ ~(Strip(ThisLine.line) = <<>> /\ block # <<>>)
    /\ ~exclude_line(ThisLine.line)
    /\ LET stripped == Strip(ThisLine.line)
       IN  IF is_strong(stripped)
           THEN /\ block_start' = IF block = <<>> THEN ThisLine.start ELSE block_start
                /\ block' = Append(block, ThisLine)
                /\ titles' = titles
           ELSE IF block # <<>> /\ is_short_final(stripped)
           THEN /\ block' = Append(block, ThisLine)
                /\ UNCHANGED <<block_start, titles>>
           ELSE /\ titles' = IF block # <<>>
                             THEN CloseBlock(titles, block, block_start, "line")
                             ELSE titles
                /\ block' = <<>>
                /\ UNCHANGED block_start
    /\ offset' = ThisLine.end
    /\ line_i' = line_i + 1
    /\ UNCHANGED <<speech_rows, offsets, cleaned_text, title_lines, sections, row, written, tpc>>
    /\ UNCHANGED scrapeVars
    /\ UNCHANGED stripVars
    /\ UNCHANGED restVars
    /\ UNCHANGED filterVars

\* lines 194-199 and 224: the lines are exhausted; the sections are cut
TitleEnd ==
    /\ tpc = "titles"
    /\ line_i > Len(title_lines)
    /\ LET ts == IF block # <<>> THEN CloseBlock(titles, block, block_start, "end")
                 ELSE titles
       IN  /\ titles' = ts
           /\ sections' = extract_sections(cleaned_text, ts)
    /\ row' = 1
    /\ tpc' = "rows"
    /\ UNCHANGED <<speech_rows, offsets, cleaned_text, title_lines, line_i, offset, block, block_start, written>>
    /\ UNCHANGED scrapeVars
    /\ UNCHANGED stripVars
    /\ UNCHANGED restVars
    /\ UNCHANGED filterVars

\* lines 258-269: a row is given its title and written (pos: a history field)
AssignRow ==
    /\ tpc = "rows"
    /\ row <= Len(offsets)
    /\ LET assigned == Assigned(sections, offsets[row])
       IN  written' = Append(written,
                [speech |-> remove_assigned_title(speech_rows[row], assigned),
                 title |-> assigned, pos |-> offsets[row]])
    /\ row' = row + 1
    /\ UNCHANGED <<speech_rows, offsets, cleaned_text, title_lines, line_i, offset, block, block_start,
                   titles, sections, tpc>>
    /\ UNCHANGED scrapeVars
    /\ UNCHANGED stripVars
    /\ UNCHANGED restVars
    /\ UNCHANGED filterVars

\* line 271
Return ==
    /\ tpc = "rows"
    /\ row > Len(offsets)
    /\ tpc' = "done"
    /\ UNCHANGED <<speech_rows, offsets, cleaned_text, title_lines, line_i, offset, block, block_start,
                   titles, sections, row, written>>
    /\ UNCHANGED scrapeVars
    /\ UNCHANGED stripVars
    /\ UNCHANGED restVars
    /\ UNCHANGED filterVars

NextTitles == Load \/ TitleBlank \/ TitleBoilerplate \/ TitleLine \/ TitleEnd \/ AssignRow \/ Return

SpecTitles == InitTitles /\ [][NextTitles]_vars

(***************************************************************************)
(* _strip_note_blocks and _clean_extraneous of src/speaker_scraper.py,     *)
(* each run on its own, one step of its loop at a time                     *)
(***************************************************************************)
\* scrape and the two workers are not running
OthersOff ==
    /\ text = <<>>
    /\ events = <<>>
    /\ pos = 0
    /\ current_speaker = NoSpeaker
    /\ speech_start = NoStart
    /\ turns = <<>>
    /\ pc = "off"
    /\ input = <<>>
    /\ speech = <<>>
    /\ passes = 0
    /\ TitlesOff

\* scrape, the two workers and the two strippers are not running
OldOff == OthersOff /\ StrippersOff

\* the texts given to _strip_note_blocks: up to MaxNoteLines lines
MaxNoteLines == 4
NoteLines ==
    { Chars("=====\n"),
      Chars("  ====== NOTE\r\n"),
      Chars("====\n"),
      Chars("a\n") }

NoteTexts ==
    UNION {{Concat(ls) : ls \in [1..n -> NoteLines]} : n \in 0..MaxNoteLines}

\* line 100: EQUALS_REGEX.match(ln)
IsMarker(ln) == MatchEnd(EQUALS_REGEX, ln, 0) >= 0

\* lines 96-98
InitNotes ==
    /\ given \in NoteTexts
    /\ note_lines = SplitLinesKeepEnds(given)
    /\ ln_i = 1
    /\ filtered = <<>>
    /\ skip = FALSE
    /\ txt = <<>>
    /\ pat_i = 0
    /\ result = <<>>
    /\ spc = "notes"
    /\ OthersOff
    /\ RestOff

\* lines 100-103: a marker line is kept and turns skip over
NoteMarker ==
    /\ spc = "notes"
    /\ ln_i <= Len(note_lines)
    /\ IsMarker(note_lines[ln_i])
    /\ filtered' = Append(filtered, note_lines[ln_i])
    /\ skip' = ~skip
    /\ ln_i' = ln_i + 1
    /\ UNCHANGED <<given, note_lines, txt, pat_i, result, spc>>
    /\ UNCHANGED <<scrapeVars, filterVars, titleVars>>
    /\ UNCHANGED restVars

\* lines 104-105: another line, while skip is set
NoteSkipped ==
    /\ spc = "notes"
    /\ ln_i <= Len(note_lines)
    /\ ~IsMarker(note_lines[ln_i])
    /\ skip
    /\ ln_i' = ln_i + 1
    /\ UNCHANGED <<given, note_lines, filtered, skip, txt, pat_i, result, spc>>
    /\ UNCHANGED <<scrapeVars, filterVars, titleVars>>
    /\ UNCHANGED restVars

\* line 106: another line, while skip is not set
NoteKept ==
    /\ spc = "notes"
    /\ ln_i <= Len(note_lines)
    /\ ~IsMarker(note_lines[ln_i])
    /\ ~skip
    /\ filtered' = Append(filtered, note_lines[ln_i])
    /\ ln_i' = ln_i + 1
    /\ UNCHANGED <<given, note_lines, skip, txt, pat_i, result, spc>>
    /\ UNCHANGED <<scrapeVars, filterVars, titleVars>>
    /\ UNCHANGED restVars

\* line 107: return ''.join(filtered)
NoteReturn ==
    /\ spc = "notes"
    /\ ln_i > Len(note_lines)
    /\ result' = Concat(filtered)
    /\ spc' = "notes_done"
    /\ UNCHANGED <<given, note_lines, ln_i, filtered, skip, txt, pat_i>>
    /\ UNCHANGED <<scrapeVars, filterVars, titleVars>>
    /\ UNCHANGED restVars

NextNotes == NoteMarker \/ NoteSkipped \/ NoteKept \/ NoteReturn

SpecNotes == InitNotes /\ [][NextNotes]_vars

\* the texts given to _clean_extraneous: up to MaxPieces pieces, one after
\* the other
MaxPieces == 3
Pieces ==
    { Chars("[[Page "),
      Chars("[[Page 1]]"),
      Chars("2]]"),
      Chars("<b>"),
      Chars("<[Roll>]"),
      Chars("--"),
      Chars("- x"),
      Chars("{time} 12"),
      Chars("<TITLE>a\n</title>"),
      Chars("(He asked and was given permission.) ") }

CleanTexts ==
    UNION {{Concat(ps) : ps \in [1..n -> Pieces]} : n \in 0..MaxPieces}

\* line 83: _clean_extraneous is entered
InitClean ==
    /\ given \in CleanTexts
    /\ txt = given
    /\ pat_i = 1
    /\ note_lines = <<>>
    /\ ln_i = 0
    /\ filtered = <<>>
    /\ skip = FALSE
    /\ result = <<>>
    /\ spc = "clean"
    /\ OthersOff
    /\ RestOff

\* lines 87-88: text = pat.sub('', text), for the next pattern of the list
CleanSub ==
    /\ spc = "clean"
    /\ pat_i <= Len(EXTRAS_PATTERNS)
    /\ txt' = SubEmpty(EXTRAS_PATTERNS[pat_i], txt)
    /\ pat_i' = pat_i + 1
    /\ UNCHANGED <<given, note_lines, ln_i, filtered, skip, result, spc>>
    /\ UNCHANGED <<scrapeVars, filterVars, titleVars>>
    /\ UNCHANGED restVars

\* line 89: return text
CleanReturn ==
    /\ spc = "clean"
    /\ pat_i > Len(EXTRAS_PATTERNS)
    /\ result' = txt
    /\ spc' = "clean_done"
    /\ UNCHANGED <<given, note_lines, ln_i, filtered, skip, txt, pat_i>>
    /\ UNCHANGED <<scrapeVars, filterVars, titleVars>>
    /\ UNCHANGED restVars

NextClean == CleanSub \/ CleanReturn

SpecClean == InitClean /\ [][NextClean]_vars

(***************************************************************************)
(* remove_headers_with_fuzz of 3-add_debate_titles.py, run on its own, one *)
(* line of its loop at a time                                              *)
(***************************************************************************)
\* line 85: up, of the line as normalize_ocr leaves it
UpOf(line) == Upper(Strip(line))

\* lines 87-91: a line that is a year of the bound volumes
IsYearLine(line) ==
    LET stripped == Strip(line)
    IN  /\ Len(stripped) = 4
        /\ \A n \in 1..4 : stripped[n] \in DIGIT
        /\ 1873 <= IntOf(stripped) /\ IntOf(stripped) <= 1994

\* line 93
HoldsRecord(line) == Contains(UpOf(line), Chars("CONGRESSIONAL RECORD"))

\* lines 96 and 100: a chamber header
IsChamberHeader(line) ==
    \/ RatioAtLeast(fuzzy_match(UpOf(line), Chars("HOUSE OF REPRESENTATIVES")), 90, 100)
    \/ RatioAtLeast(fuzzy_match(UpOf(line), Chars("SENATE")), 83, 100)

\* lines 104-111: nearly the name of the record, or authentication words only
IsRecordOrKeys(line) ==
    LET words == AlphaRuns(UpOf(line))
    IN  \/ RatioAtLeast(fuzzy_match(UpOf(line), Chars("CONGRESSIONAL RECORD")), 90, 100)
        \/ words # <<>> /\ \A n \in 1..Len(words) : words[n] \in HEADER_KEYS

\* the texts given to remove_headers_with_fuzz: up to MaxHeaderLines lines
MaxHeaderLines == 3
HeaderLines ==
    { Chars("SENATE"),
      Chars("HOUSE OF REPRESENTATIVES"),
      Chars("1900"),
      Chars("The Congressional Record"),
      Chars("GPO"),
      Chars("MONDAY NEXT"),
      Chars("it was said") }

HeaderTexts ==
    UNION {{Join(<<"\n">>, ls) : ls \in [1..n -> HeaderLines]} : n \in 0..MaxHeaderLines}

\* lines 79-81
InitHeaders ==
    /\ h_lines \in {SplitLines(t) : t \in HeaderTexts}
    /\ h_i = 1
    /\ h_skip_next = FALSE
    /\ h_cleaned = <<>>
    /\ hpc = "loop"
    /\ OldOff
    /\ LevOff /\ RetryOff /\ YearsOff /\ KeysOff /\ DayOff

\* the line of this turn of the loop, as line 84 leaves it
HeaderLine == normalize_ocr(h_lines[h_i])

\* lines 87-94 and 104-111: a line dropped by a rule that leaves skip_next
\* as it is
HeaderDropped ==
    /\ hpc = "loop"
    /\ h_i <= Len(h_lines)
    /\ \/ IsYearLine(HeaderLine)
       \/ HoldsRecord(HeaderLine)
       \/ ~IsChamberHeader(HeaderLine) /\ IsRecordOrKeys(HeaderLine)
    /\ h_i' = h_i + 1
    /\ UNCHANGED <<h_lines, h_skip_next, h_cleaned, hpc>>
    /\ UNCHANGED oldVars
    /\ UNCHANGED <<levVars, retryVars, yearVars, keyVars, dayVars>>

\* lines 96-102: a chamber header is dropped and sets skip_next
HeaderChamber ==
    /\ hpc = "loop"
    /\ h_i <= Len(h_lines)
    /\ ~IsYearLine(HeaderLine)
    /\ ~HoldsRecord(HeaderLine)
    /\ IsChamberHeader(HeaderLine)
    /\ h_skip_next' = TRUE
    /\ h_i' = h_i + 1
    /\ UNCHANGED <<h_lines, h_cleaned, hpc>>
    /\ UNCHANGED oldVars
    /\ UNCHANGED <<levVars, retryVars, yearVars, keyVars, dayVars>>

\* lines 113-122: any other line clears skip_next, and is kept unless
\* skip_next was set and the line begins with a word in capitals
HeaderOther ==
    /\ hpc = "loop"
    /\ h_i <= Len(h_lines)
    /\ ~IsYearLine(HeaderLine)
    /\ ~HoldsRecord(HeaderLine)
    /\ ~IsChamberHeader(HeaderLine)
    /\ ~IsRecordOrKeys(HeaderLine)
    /\ h_skip_next' = FALSE
    /\ h_cleaned' = IF h_skip_next /\ SkippedAfterHeader(HeaderLine)
                    THEN h_cleaned
                    ELSE Append(h_cleaned, HeaderLine)
    /\ h_i' = h_i + 1
    /\ UNCHANGED <<h_lines, hpc>>
    /\ UNCHANGED oldVars
    /\ UNCHANGED <<levVars, retryVars, yearVars, keyVars, dayVars>>

\* line 124: return "\n".join(cleaned)
HeaderReturn ==
    /\ hpc = "loop"
    /\ h_i > Len(h_lines)
    /\ hpc' = "done"
    /\ UNCHANGED <<h_lines, h_i, h_skip_next, h_cleaned>>
    /\ UNCHANGED oldVars
    /\ UNCHANGED <<levVars, retryVars, yearVars, keyVars, dayVars>>

NextHeaders == HeaderDropped \/ HeaderChamber \/ HeaderOther \/ HeaderReturn

SpecHeaders == InitHeaders /\ [][NextHeaders]_vars

(***************************************************************************)
(* levenshtein_leq1 of 4-clean_record_boilerplate.py, called on its own    *)
(***************************************************************************)
\* the strings given to levenshtein_leq1: up to MaxWord letters
MaxWord == 3
Words == UNION {[1..n -> {"A", "B"}] : n \in 0..MaxWord}

InitLev ==
    /\ lev_a \in Words
    /\ lev_b \in Words
    /\ lev_out = FALSE
    /\ lpc = "call"
    /\ OldOff
    /\ HeadersOff /\ RetryOff /\ YearsOff /\ KeysOff /\ DayOff

\* lines 17-43: the call returns
LevReturn ==
    /\ lpc = "call"
    /\ lev_out' = levenshtein_leq1(lev_a, lev_b)
    /\ lpc' = "returned"
    /\ UNCHANGED <<lev_a, lev_b>>
    /\ UNCHANGED oldVars
    /\ UNCHANGED <<headerVars, retryVars, yearVars, keyVars, dayVars>>

NextLev == LevReturn

SpecLev == InitLev /\ [][NextLev]_vars

(***************************************************************************)
(* The API helpers of CREC_scraper.py and CRECB_scraper.py: one call, the  *)
(* server answering each request with 429, with 200 or with another error  *)
(***************************************************************************)
MAX_RETRIES == 3

\* the most requests of one call that are followed
MaxRequests == 6

\* CREC_scraper.py: get_search_results, get_granules, get_granule_summary,
\* get_htm, get_mods; CRECB_scraper.py: fetch_json, get_summary
Helpers ==
    {"get_search_results", "get_granules", "get_granule_summary", "get_htm",
     "get_mods", "fetch_json", "get_summary"}

\* the helpers whose loop is `for attempt in range(1, MAX_RETRIES+1)` or
\* `for _ in range(MAX_RETRIES)`; get_granules loops `while True`
Counted == Helpers \ {"get_granules"}

\* the helpers that catch the HTTP error of a response and try again
Forgiving == {"get_granule_summary", "get_htm", "get_mods"}

InitRetry ==
    /\ rq_helper \in Helpers
    /\ rq_attempt = 1
    /\ rq_requests = 0
    /\ rq_resp = 0
    /\ rq_all429 = TRUE
    /\ rqpc = "loop"
    /\ OldOff
    /\ HeadersOff /\ LevOff /\ YearsOff /\ KeysOff /\ DayOff

\* the loop has a turn left, and the run is followed further
CanRequest ==
    /\ rqpc = "loop"
    /\ rq_helper \in Counted => rq_attempt <= MAX_RETRIES
    /\ rq_requests < MaxRequests

\* resp.status_code == 429: sleep and continue
RateLimited ==
    /\ CanRequest
    /\ rq_requests' = rq_requests + 1
    /\ rq_resp' = 429
    /\ rq_attempt' = IF rq_helper \in Counted THEN rq_attempt + 1 ELSE rq_attempt
    /\ UNCHANGED <<rq_helper, rq_all429, rqpc>>
    /\ UNCHANGED oldVars
    /\ UNCHANGED <<headerVars, levVars, yearVars, keyVars, dayVars>>

\* a 200: the helper returns the body; get_granules goes on while the body
\* holds a nextOffsetMark
Answered ==
    /\ CanRequest
    /\ \E nxt \in BOOLEAN :
          /\ nxt => rq_helper = "get_granules"
          /\ rqpc' = IF nxt THEN "loop" ELSE "returned"
    /\ rq_requests' = rq_requests + 1
    /\ rq_resp' = 200
    /\ rq_all429' = FALSE
    /\ UNCHANGED <<rq_helper, rq_attempt>>
    /\ UNCHANGED oldVars
    /\ UNCHANGED <<headerVars, levVars, yearVars, keyVars, dayVars>>

\* another HTTP error: raise_for_status raises; get_granule_summary, get_htm
\* and get_mods catch it, try again and return an empty value at last
Failed ==
    /\ CanRequest
    /\ rq_requests' = rq_requests + 1
    /\ rq_resp' = 500
    /\ rq_all429' = FALSE
    /\ IF rq_helper \in Forgiving
       THEN /\ rq_attempt' = rq_attempt + 1
            /\ rqpc' = IF rq_attempt < MAX_RETRIES THEN "loop" ELSE "returned"
       ELSE /\ rq_attempt' = rq_attempt
            /\ rqpc' = "raised"
    /\ UNCHANGED rq_helper
    /\ UNCHANGED oldVars
    /\ UNCHANGED <<headerVars, levVars, yearVars, keyVars, dayVars>>

\* the counted loop is over: get_search_results raises RuntimeError,
\* fetch_json and get_summary raise for the last response, a 429, the others
\* return an empty value
Exhausted ==
    /\ rqpc = "loop"
    /\ rq_helper \in Counted
    /\ rq_attempt > MAX_RETRIES
    /\ rqpc' = IF rq_helper \in Forgiving THEN "returned" ELSE "raised"
    /\ UNCHANGED <<rq_helper, rq_attempt, rq_requests, rq_resp, rq_all429>>
    /\ UNCHANGED oldVars
    /\ UNCHANGED <<headerVars, levVars, yearVars, keyVars, dayVars>>

NextRetry == RateLimited \/ Answered \/ Failed \/ Exhausted

SpecRetry == InitRetry /\ [][NextRetry]_vars

(***************************************************************************)
(* CRECB_scraper.py: worker, run by several threads at once, one statement *)
(* at a time                                                               *)
(***************************************************************************)
\* the threads of the pool
MaxWorkers == 2
Workers == 1..MaxWorkers

\* the years the summaries hold
Years == {"1950", "1951"}

\* w_pc, w_year, w_idx or year_inits with the value at k replaced
Put(f, k, v) == [f EXCEPT ![k] = v]

\* thread w goes to place at
Goto(w, at) == w_pc' = Put(w_pc, w, at)

\* year_states[year] with one field replaced
WithField(year, field, v) ==
    [year_states EXCEPT ![year] = [year_states[year] EXCEPT ![field] = v]]

InitYears ==
    /\ year_states = <<>>
    /\ year_states_lock = 0
    /\ w_pc = [w \in Workers |-> "summary"]
    /\ w_year = [w \in Workers |-> ""]
    /\ w_idx = [w \in Workers |-> 0]
    /\ pdf_files = {}
    /\ xml_files = {}
    /\ year_inits = [y \in Years |-> 0]
    /\ OldOff
    /\ HeadersOff /\ LevOff /\ RetryOff /\ KeysOff /\ DayOff

\* lines 141-147: the summary is fetched; get_summary may raise, the summary
\* may hold no date (return), or it holds the date of a year
Summary(w) ==
    /\ w_pc[w] = "summary"
    /\ \/ /\ \E at \in {"raised", "returned"} : Goto(w, at)
          /\ UNCHANGED w_year
       \/ /\ \E y \in Years : w_year' = Put(w_year, w, y)
          /\ Goto(w, "lock_years")
    /\ UNCHANGED <<year_states, year_states_lock, w_idx, pdf_files, xml_files, year_inits>>
    /\ UNCHANGED oldVars
    /\ UNCHANGED <<headerVars, levVars, retryVars, keyVars, dayVars>>

\* line 149: with year_states_lock
LockYears(w) ==
    /\ w_pc[w] = "lock_years"
    /\ year_states_lock = 0
    /\ year_states_lock' = w
    /\ Goto(w, "check_year")
    /\ UNCHANGED <<year_states, w_year, w_idx, pdf_files, xml_files, year_inits>>
    /\ UNCHANGED oldVars
    /\ UNCHANGED <<headerVars, levVars, retryVars, keyVars, dayVars>>

\* line 150: if year not in year_states
CheckYear(w) ==
    /\ w_pc[w] = "check_year"
    /\ Goto(w, IF w_year[w] \in DOMAIN year_states THEN "unlock_years" ELSE "init_year")
    /\ UNCHANGED <<year_states, year_states_lock, w_year, w_idx, pdf_files, xml_files, year_inits>>
    /\ UNCHANGED oldVars
    /\ UNCHANGED <<headerVars, levVars, retryVars, keyVars, dayVars>>

\* lines 151-162: the directories are made and the state of the year is set
InitYear(w) ==
    /\ w_pc[w] = "init_year"
    /\ year_states' = [y \in DOMAIN year_states \cup {w_year[w]} |->
                          IF y = w_year[w] THEN [pdf_ctr |-> 1, xml_ctr |-> 1, lock |-> 0]
                          ELSE year_states[y]]
    /\ year_inits' = Put(year_inits, w_year[w], year_inits[w_year[w]] + 1)
    /\ Goto(w, "unlock_years")
    /\ UNCHANGED <<year_states_lock, w_year, w_idx, pdf_files, xml_files>>
    /\ UNCHANGED oldVars
    /\ UNCHANGED <<headerVars, levVars, retryVars, keyVars, dayVars>>

\* the end of the with block of line 149
UnlockYears(w) ==
    /\ w_pc[w] = "unlock_years"
    /\ year_states_lock' = 0
    /\ Goto(w, "lock_year")
    /\ UNCHANGED <<year_states, w_year, w_idx, pdf_files, xml_files, year_inits>>
    /\ UNCHANGED oldVars
    /\ UNCHANGED <<headerVars, levVars, retryVars, keyVars, dayVars>>

\* the lock of the year taken whoever holds it
LockYear_NoWait(w) ==
    /\ w_pc[w] = "lock_year"
    /\ year_states' = WithField(w_year[w], "lock", w)
    /\ Goto(w, "pdf_get")
    /\ UNCHANGED <<year_states_lock, w_year, w_idx, pdf_files, xml_files, year_inits>>
    /\ UNCHANGED oldVars
    /\ UNCHANGED <<headerVars, levVars, retryVars, keyVars, dayVars>>

\* lines 164-167: st = year_states[year]; with st["lock"]
LockYear(w) ==
    /\ w_pc[w] = "lock_year"
    /\ year_states[w_year[w]].lock = 0
    /\ year_states' = WithField(w_year[w], "lock", w)
    /\ Goto(w, "pdf_get")
    /\ UNCHANGED <<year_states_lock, w_year, w_idx, pdf_files, xml_files, year_inits>>
    /\ UNCHANGED oldVars
    /\ UNCHANGED <<headerVars, levVars, retryVars, keyVars, dayVars>>

\* lines 168-170 and 181-183: the PDF, then the MODS, is requested; the
\* status is 200 or it is not, or the request raises and the with block of
\* line 167 is left
Get(w) ==
    /\ w_pc[w] \in {"pdf_get", "mods_get"}
    /\ \/ /\ \E ok \in BOOLEAN :
                Goto(w, IF w_pc[w] = "pdf_get"
                        THEN (IF ok THEN "pdf_idx" ELSE "mods_get")
                        ELSE (IF ok THEN "xml_idx" ELSE "unlock_year"))
          /\ UNCHANGED year_states
       \/ /\ Goto(w, "raised")
          /\ year_states' = WithField(w_year[w], "lock", 0)
    /\ UNCHANGED <<year_states_lock, w_year, w_idx, pdf_files, xml_files, year_inits>>
    /\ UNCHANGED oldVars
    /\ UNCHANGED <<headerVars, levVars, retryVars, keyVars, dayVars>>

\* lines 171 and 184: idx = st["pdf_ctr"], idx = st["xml_ctr"]
ReadCounter(w) ==
    /\ w_pc[w] \in {"pdf_idx", "xml_idx"}
    /\ w_idx' = Put(w_idx, w, IF w_pc[w] = "pdf_idx"
                              THEN year_states[w_year[w]].pdf_ctr
                              ELSE year_states[w_year[w]].xml_ctr)
    /\ Goto(w, IF w_pc[w] = "pdf_idx" THEN "pdf_write" ELSE "xml_write")
    /\ UNCHANGED <<year_states, year_states_lock, w_year, pdf_files, xml_files, year_inits>>
    /\ UNCHANGED oldVars
    /\ UNCHANGED <<headerVars, levVars, retryVars, keyVars, dayVars>>

\* lines 172-175 and 185-188: the file named by idx is written
WriteFile(w) ==
    /\ w_pc[w] \in {"pdf_write", "xml_write"}
    /\ LET file == [year |-> w_year[w], idx |-> w_idx[w], by |-> w]
       IN  IF w_pc[w] = "pdf_write"
           THEN pdf_files' = pdf_files \cup {file} /\ UNCHANGED xml_files
           ELSE xml_files' = xml_files \cup {file} /\ UNCHANGED pdf_files
    /\ Goto(w, IF w_pc[w] = "pdf_write" THEN "pdf_inc" ELSE "xml_inc")
    /\ UNCHANGED <<year_states, year_states_lock, w_year, w_idx, year_inits>>
    /\ UNCHANGED oldVars
    /\ UNCHANGED <<headerVars, levVars, retryVars, keyVars, dayVars>>

\* lines 176 and 189: st["pdf_ctr"] += 1, st["xml_ctr"] += 1
Increment(w) ==
    /\ w_pc[w] \in {"pdf_inc", "xml_inc"}
    /\ year_states' = IF w_pc[w] = "pdf_inc"
                      THEN WithField(w_year[w], "pdf_ctr", year_states[w_year[w]].pdf_ctr + 1)
                      ELSE WithField(w_year[w], "xml_ctr", year_states[w_year[w]].xml_ctr + 1)
    /\ Goto(w, IF w_pc[w] = "pdf_inc" THEN "mods_get" ELSE "unlock_year")
    /\ UNCHANGED <<year_states_lock, w_year, w_idx, pdf_files, xml_files, year_inits>>
    /\ UNCHANGED oldVars
    /\ UNCHANGED <<headerVars, levVars, retryVars, keyVars, dayVars>>

\* the end of the with block of line 167
UnlockYear(w) ==
    /\ w_pc[w] = "unlock_year"
    /\ year_states' = WithField(w_year[w], "lock", 0)
    /\ Goto(w, "returned")
    /\ UNCHANGED <<year_states_lock, w_year, w_idx, pdf_files, xml_files, year_inits>>
    /\ UNCHANGED oldVars
    /\ UNCHANGED <<headerVars, levVars, retryVars, keyVars, dayVars>>

NextYears ==
    \E w \in Workers :
        \/ Summary(w)
        \/ LockYears(w)
        \/ CheckYear(w)
        \/ InitYear(w)
        \/ UnlockYears(w)
        \/ LockYear(w)
        \/ Get(w)
        \/ ReadCounter(w)
        \/ WriteFile(w)
        \/ Increment(w)
        \/ UnlockYear(w)

SpecYears == InitYears /\ [][NextYears]_vars

(***************************************************************************)
(* CREC_scraper.py and CRECB_scraper.py: get_api_key, called by several    *)
(* threads at once, one statement at a time                                *)
(***************************************************************************)
\* the most keys given, the calling threads, and the calls each makes
MaxKeys == 3
MaxCallers == 2
MaxCalls == 2
Callers == 1..MaxCallers

InitKeys ==
    /\ n_keys \in 1..MaxKeys
    /\ _key_index = 0
    /\ _key_lock = 0
    /\ k_pc = [c \in Callers |-> "idle"]
    /\ k_key = [c \in Callers |-> 0]
    /\ k_calls = [c \in Callers |-> 0]
    /\ handed = <<>>
    /\ OldOff
    /\ HeadersOff /\ LevOff /\ RetryOff /\ YearsOff /\ DayOff

\* _key_lock taken whoever holds it
EnterKeyLock_NoWait(c) ==
    /\ k_pc[c] = "idle"
    /\ k_calls[c] < MaxCalls
    /\ _key_lock' = c
    /\ k_pc' = Put(k_pc, c, "read")
    /\ UNCHANGED <<n_keys, _key_index, k_key, k_calls, handed>>
    /\ UNCHANGED oldVars
    /\ UNCHANGED <<headerVars, levVars, retryVars, yearVars, dayVars>>

\* with _key_lock
EnterKeyLock(c) ==
    /\ k_pc[c] = "idle"
    /\ k_calls[c] < MaxCalls
    /\ _key_lock = 0
    /\ _key_lock' = c
    /\ k_pc' = Put(k_pc, c, "read")
    /\ UNCHANGED <<n_keys, _key_index, k_key, k_calls, handed>>
    /\ UNCHANGED oldVars
    /\ UNCHANGED <<headerVars, levVars, retryVars, yearVars, dayVars>>

\* key = API_KEYS[_key_index]; the key is named by its place in the list
ReadKey(c) ==
    /\ k_pc[c] = "read"
    /\ k_key' = Put(k_key, c, _key_index)
    /\ handed' = Append(handed, _key_index)
    /\ k_pc' = Put(k_pc, c, "advance")
    /\ UNCHANGED <<n_keys, _key_index, _key_lock, k_calls>>
    /\ UNCHANGED oldVars
    /\ UNCHANGED <<headerVars, levVars, retryVars, yearVars, dayVars>>

\* _key_index = (_key_index + 1) % len(API_KEYS)
AdvanceKey(c) ==
    /\ k_pc[c] = "advance"
    /\ _key_index' = (_key_index + 1) % n_keys
    /\ k_pc' = Put(k_pc, c, "leave")
    /\ UNCHANGED <<n_keys, _key_lock, k_key, k_calls, handed>>
    /\ UNCHANGED oldVars
    /\ UNCHANGED <<headerVars, levVars, retryVars, yearVars, dayVars>>

\* the end of the with block; return key
ReturnKey(c) ==
    /\ k_pc[c] = "leave"
    /\ _key_lock' = 0
    /\ k_calls' = Put(k_calls, c, k_calls[c] + 1)
    /\ k_pc' = Put(k_pc, c, "idle")
    /\ UNCHANGED <<n_keys, _key_index, k_key, handed>>
    /\ UNCHANGED oldVars
    /\ UNCHANGED <<headerVars, levVars, retryVars, yearVars, dayVars>>

NextKeys ==
    \E c \in Callers :
        \/ EnterKeyLock(c)
        \/ ReadKey(c)
        \/ AdvanceKey(c)
        \/ ReturnKey(c)

SpecKeys == InitKeys /\ [][NextKeys]_vars

(***************************************************************************)
(* CREC_scraper.py: scrape_day from the fetching of the granules on        *)
(***************************************************************************)
\* the characters of the granule ids in the order of their code points
CODE_POINTS == Chars("0123456789HPSg")
CodeOf(ch) == CHOOSE n \in 1..Len(CODE_POINTS) : CODE_POINTS[n] = ch

\* a < b as Python compares two str
RECURSIVE StrLess(_, _)
StrLess(a, b) ==
    IF b = <<>> THEN FALSE
    ELSE IF a = <<>> THEN TRUE
    ELSE IF Head(a) = Head(b) THEN StrLess(Tail(a), Tail(b))
    ELSE CodeOf(Head(a)) < CodeOf(Head(b))

\* the granule ids of a day, and the most pairs collected
MaxPairs == 2
GranuleIds == {Chars("PgH1"), Chars("PgH10"), Chars("PgH2"), Chars("PgS1")}

\* the lists of distinct granule ids up to n long
RECURSIVE PairsUpTo(_)
PairsUpTo(n) ==
    IF n = 0 THEN {<<>>}
    ELSE LET shorter == PairsUpTo(n - 1)
             longest == {ps \in shorter : Len(ps) = n - 1}
             fresh(ps) == {g \in GranuleIds : \A k \in 1..Len(ps) : ps[k] # g}
         IN  shorter \cup UNION {{Append(ps, g) : g \in fresh(ps)} : ps \in longest}

\* what _fetch_one_granule returns for gid when it returns an item: html and
\* mods_xml are empty or not, the title is '' without MODS
Fetched(gid) ==
    {[gid |-> gid, html |-> h, mods_xml |-> x, title |-> t] :
        h \in BOOLEAN, x \in BOOLEAN, t \in {"", "t"}}
    \ {[gid |-> gid, html |-> h, mods_xml |-> FALSE, title |-> "t"] : h \in BOOLEAN}

\* the results kept in the order they came
SortByGid_AsCompleted(results) == results

\* results.sort(key=lambda r: r['gid']): a stable sort
RECURSIVE SortByGid(_)
SortByGid(results) ==
    IF results = <<>> THEN <<>>
    ELSE LET sorted == SortByGid(SubSeq(results, 1, Len(results) - 1))
             item == results[Len(results)]
             keep == Cardinality({k \in 1..Len(sorted) : ~StrLess(item.gid, sorted[k].gid)})
         IN  SubSeq(sorted, 1, keep) \o <<item>> \o SubSeq(sorted, keep + 1, Len(sorted))

InitDay ==
    /\ d_pairs \in PairsUpTo(MaxPairs)
    /\ d_parallel \in BOOLEAN
    /\ d_pending = 1..Len(d_pairs)
    /\ d_results = <<>>
    /\ d_order = <<>>
    /\ d_item = 0
    /\ html_counter = 0
    /\ xml_counter = 0
    /\ d_files = {}
    /\ title_map = {}
    /\ dpc = "fetch"
    /\ OldOff
    /\ HeadersOff /\ LevOff /\ RetryOff /\ YearsOff /\ KeysOff

\* lines 287-303: a fetch completes, any of those submitted when parallel,
\* the next of pairs when not; it gives an item, or None or an exception
Complete ==
    /\ dpc = "fetch"
    /\ \E k \in d_pending :
          /\ d_parallel \/ \A j \in d_pending : k <= j
          /\ d_pending' = d_pending \ {k}
          /\ \/ /\ \E item \in Fetched(d_pairs[k]) : d_results' = Append(d_results, item)
                /\ d_order' = Append(d_order, d_pairs[k])
             \/ UNCHANGED <<d_results, d_order>>
    /\ UNCHANGED <<d_pairs, d_item, html_counter, xml_counter, d_files, title_map, d_parallel, dpc>>
    /\ UNCHANGED oldVars
    /\ UNCHANGED <<headerVars, levVars, retryVars, yearVars, keyVars>>

\* lines 305-315: nothing fetched returns the empty map; else the results
\* are sorted and the counters start at 1
Sort ==
    /\ dpc = "fetch"
    /\ d_pending = {}
    /\ IF d_results = <<>>
       THEN /\ dpc' = "done"
            /\ UNCHANGED <<d_results, d_item, html_counter, xml_counter>>
       ELSE /\ d_results' = SortByGid(d_results)
            /\ html_counter' = 1
            /\ xml_counter' = 1
            /\ d_item' = 1
            /\ dpc' = "write"
    /\ UNCHANGED <<d_pairs, d_pending, d_files, title_map, d_parallel, d_order>>
    /\ UNCHANGED oldVars
    /\ UNCHANGED <<headerVars, levVars, retryVars, yearVars, keyVars>>

\* lines 317-331: the files of one item are written
WriteItem ==
    /\ dpc = "write"
    /\ d_item <= Len(d_results)
    /\ LET item == d_results[d_item]
           hname == IF item.html
                    THEN {[kind |-> "html", prefix |-> html_counter, gid |-> item.gid]}
                    ELSE {}
           xname == IF item.mods_xml
                    THEN {[kind |-> "xml", prefix |-> xml_counter, gid |-> item.gid]}
                    ELSE {}
       IN  /\ d_files' = d_files \cup hname \cup xname
           /\ html_counter' = IF item.html THEN html_counter + 1 ELSE html_counter
           /\ xml_counter' = IF item.mods_xml THEN xml_counter + 1 ELSE xml_counter
           /\ title_map' = IF item.mods_xml
                           THEN {p \in title_map : p[1] # item.gid} \cup {<<item.gid, item.title>>}
                           ELSE title_map
    /\ d_item' = d_item + 1
    /\ UNCHANGED <<d_pairs, d_pending, d_results, d_parallel, d_order, dpc>>
    /\ UNCHANGED oldVars
    /\ UNCHANGED <<headerVars, levVars, retryVars, yearVars, keyVars>>

\* lines 333-334: return html_dir, xml_dir, title_map
ReturnDay ==
    /\ dpc = "write"
    /\ d_item > Len(d_results)
    /\ dpc' = "done"
    /\ UNCHANGED <<d_pairs, d_pending, d_results, d_item, html_counter, xml_counter,
                   d_files, title_map, d_parallel, d_order>>
    /\ UNCHANGED oldVars
    /\ UNCHANGED <<headerVars, levVars, retryVars, yearVars, keyVars>>

NextDay ==
    \/ Complete
    \/ Sort
    \/ WriteItem
    \/ ReturnDay

SpecDay == InitDay /\ [][NextDay]_vars

(***************************************************************************)
(* Properties of scrape, checked under SpecScrape                          *)
(***************************************************************************)
\* the event of the current iteration of the loop
AtEvent == pc = "loop" /\ pos <= Len(events)
InTurn == current_speaker # NoSpeaker

\* the characters text[a:b] as they are emitted
Emitted(a, b) == Strip(_clean_extraneous(Strip(Slice(text, a, b))))

\* C1: the emitted turns are sorted ascending by the start of their span and
\* do not overlap: a turn begins after the one before it began, and not
\* before the one before it ended.
C1_TurnsOrdered ==
    \A i \in 1..(Len(turns) - 1) :
        /\ turns[i].start < turns[i + 1].start
        /\ turns[i].end <= turns[i + 1].start

\* three turns were emitted, the last one by the code after the loop
C1_Witness == pc = "done" /\ Len(turns) >= 3

\* C2: no emitted speaker label ends with a period.
C2_NoTrailingPeriod ==
    \A i \in 1..Len(turns) :
        turns[i].speaker # <<>> => Last(turns[i].speaker) # "."

\* C3: a Start event while InTurn emits the open turn, cut at the start of
\* the event, under the open speaker, and opens a turn for the new label at
\* the end of the event; a Start event while Idle emits nothing and opens
\* the turn the same way.
C3_StartEvent ==
    [][ AtEvent /\ events[pos].etype = "speaker" =>
          /\ current_speaker' \o <<".">> = Strip(Slice(text, events[pos].start, events[pos].end))
          /\ speech_start' = events[pos].end
          /\ IF InTurn
             THEN /\ Len(turns') = Len(turns) + 1
                  /\ SubSeq(turns', 1, Len(turns)) = turns
                  /\ Last(turns').speaker = current_speaker
                  /\ Last(turns').start = speech_start
                  /\ Last(turns').end = events[pos].start
                  /\ Last(turns').text = Emitted(speech_start, events[pos].start)
             ELSE turns' = turns ]_vars

\* a Start event has just closed a turn that has text and opened the next
C3_Witness ==
    /\ pc = "loop" /\ pos > 1 /\ events[pos - 1].etype = "speaker"
    /\ turns # <<>> /\ Last(turns).end = events[pos - 1].start
    /\ Last(turns).text # <<>>
    /\ InTurn /\ current_speaker # Last(turns).speaker

\* the end of the first Start event after place k of the timeline, or the
\* length of the text
NextStartEnd(k) ==
    LET later == {j \in (k + 1)..Len(events) : events[j].etype = "speaker"}
    IN  IF later = {} THEN Len(text)
        ELSE events[CHOOSE j \in later : \A i \in later : j <= i].end

\* no turn holds an offset p with a <= p < b
Unassigned(a, b) ==
    \A i \in 1..Len(turns) : ~(Max(turns[i].start, a) < Min(turns[i].end, b))

\* C4: an End event while InTurn emits the open turn, cut at the start of
\* the event, and leaves no turn open; so no character between the start of
\* an End event and the end of the next Start event, and none before the
\* end of the first Start event, is in an emitted turn.
C4_EndEvent ==
    /\ [][ AtEvent /\ events[pos].etype = "end" /\ InTurn =>
             /\ turns' = Append(turns, [speaker |-> current_speaker,
                                        text |-> Emitted(speech_start, events[pos].start),
                                        start |-> speech_start,
                                        end |-> events[pos].start])
             /\ current_speaker' = NoSpeaker ]_vars
    /\ [](pc # "begin" =>
             /\ \A k \in 1..Len(events) :
                    events[k].etype = "end" =>
                        Unassigned(events[k].start, NextStartEnd(k))
             /\ Unassigned(0, NextStartEnd(0)))

\* an End event closed a turn that has text, and a later Start event opened
\* a turn which was emitted too
C4_Witness ==
    /\ pc = "done" /\ Len(turns) >= 2
    /\ \E k \in 1..Len(events) :
          /\ events[k].etype = "end"
          /\ turns[1].end = events[k].start
          /\ turns[1].text # <<>>
          /\ turns[2].start = NextStartEnd(k)
          /\ events[k].end < NextStartEnd(k)

\* C5: an End event while Idle changes nothing: no turn is emitted, no
\* speaker is set and no offset is kept; the loop goes on to the next event.
C5_StrayEnd ==
    [][ AtEvent /\ events[pos].etype = "end" /\ ~InTurn =>
          /\ turns' = turns
          /\ current_speaker' = NoSpeaker
          /\ speech_start' = NoStart /\ speech_start = NoStart
          /\ pos' = pos + 1 /\ pc' = "loop" ]_vars

\* two End events in a row were met while Idle, before any speaker
C5_Witness ==
    /\ pc = "loop" /\ pos >= 3
    /\ events[pos - 1].etype = "end" /\ events[pos - 2].etype = "end"
    /\ \A k \in 1..(pos - 1) : events[k].etype = "end"
    /\ turns = <<>> /\ ~InTurn

\* C6: when the events are exhausted while InTurn, exactly one more turn is
\* emitted, for the open speaker, cut at the end of the text; while Idle,
\* nothing more is emitted.
C6_Exhausted ==
    [][ pc = "loop" /\ pos > Len(events) =>
          /\ pc' = "done"
          /\ IF InTurn
             THEN turns' = Append(turns, [speaker |-> current_speaker,
                                          text |-> Emitted(speech_start, Len(text)),
                                          start |-> speech_start,
                                          end |-> Len(text)])
             ELSE turns' = turns ]_vars

\* the code after the loop emitted the open turn, after an earlier one
C6_Witness ==
    /\ pc = "done" /\ InTurn /\ Len(turns) >= 2
    /\ Last(turns).end = Len(text) /\ Last(turns).start = speech_start
    /\ Last(turns).text # <<>>

\* C7: the timeline is sorted by start offset, two events with the same
\* start offset stand in the order in which their families were scanned,
\* two events of one family stand in the order in which they were found,
\* and the sort loses and adds no event.
C7_StableSort ==
    /\ \A i, j \in 1..Len(events) :
          i < j => /\ events[i].start <= events[j].start
                   /\ events[i].start = events[j].start =>
                          /\ events[i].fam <= events[j].fam
                          /\ events[i].seq < events[j].seq
                   /\ events[i].fam = events[j].fam => events[i].seq < events[j].seq
    /\ pc = "loop" /\ pos = 1 =>
          LET c == Collected(text)
          IN  /\ Len(c) = Len(events)
              /\ \A n \in 1..Len(c) : \E i \in 1..Len(events) : events[i] = c[n]

\* the sort moved an event, and two families have an event at one offset
C7_Witness ==
    /\ \E i, j \in 1..Len(events) : i < j /\ events[i].seq > events[j].seq
    /\ \E i, j \in 1..Len(events) :
          /\ i < j /\ events[i].start = events[j].start
          /\ events[i].fam < events[j].fam
    /\ \E i, j \in 1..Len(events) :
          /\ i < j /\ events[i].start < events[j].start
          /\ events[i].fam = events[j].fam

RECURSIVE SpansFrom(_)
\* the spans text[start:end] of the emitted turns, one after the other
SpansFrom(i) ==
    IF i > Len(turns) THEN <<>>
    ELSE Slice(text, turns[i].start, turns[i].end) \o SpansFrom(i + 1)

IsSpeaker(e) == e.etype = "speaker"

\* C8 as stated: the event scanner finds no Start event in the concatenation
\* of the spans of the emitted turns.
C8_RescanFindsNoStart ==
    pc = "done" => SelectSeq(Timeline(Normalised(SpansFrom(1))), IsSpeaker) = <<>>

\* C8, amended: no Start event of the timeline begins inside the span of an
\* emitted turn.
C8_NoStartInsideTurn ==
    \A i \in 1..Len(turns) : \A k \in 1..Len(events) :
        IsSpeaker(events[k]) =>
            ~(turns[i].start <= events[k].start /\ events[k].start < turns[i].end)

\* two turns with text were emitted and a Start event stands between them
C8_Witness ==
    /\ pc = "done" /\ Len(turns) >= 2
    /\ turns[1].start < turns[1].end /\ turns[2].start < turns[2].end
    /\ \E k \in 1..Len(events) :
          IsSpeaker(events[k]) /\ events[k].start = turns[1].end

(***************************************************************************)
(* The boilerplate filter.                                                 *)
(***************************************************************************)
\* C9: the filter is idempotent: the speech a run of the script has written
\* is left as it is by one more run of clean_speech_text.
C9_Idempotent == passes >= 1 => clean_speech_text(speech) = speech

\* a and b are at most one edit apart: equal, or one character replaced,
\* or one character more in one of them
WithinOneEdit(a, b) ==
    \/ a = b
    \/ /\ Len(a) = Len(b)
       /\ \E i \in 1..Len(a) : \A j \in 1..Len(a) : j # i => a[j] = b[j]
    \/ /\ Len(a) = Len(b) + 1
       /\ \E i \in 1..Len(a) : SubSeq(a, 1, i - 1) \o SubSeq(a, i + 1, Len(a)) = b
    \/ /\ Len(b) = Len(a) + 1
       /\ \E i \in 1..Len(b) : SubSeq(b, 1, i - 1) \o SubSeq(b, i + 1, Len(b)) = a

\* some window of T-1, T or T+1 characters of the upper-cased line is, once
\* its characters other than A-Z and space are deleted, at most one edit
\* from the target
HoldsTarget(line) ==
    LET up == Upper(line)
        Letters(w) == LET Keep(c) == c \in UPPER \cup {" "} IN SelectSeq(w, Keep)
    IN  \E a \in 1..Len(up) : \E b \in a..Len(up) :
           /\ b - a + 1 \in {T_LEN - 1, T_LEN, T_LEN + 1}
           /\ WithinOneEdit(Letters(SubSeq(up, a, b)), TARGET)

CaseEq(c, d) == c = d \/ \E n \in 1..26 : {c, d} = {UpperSeq[n], LowerSeq[n]}

CaseEqSeq(a, b) == Len(a) = Len(b) /\ \A j \in 1..Len(a) : CaseEq(a[j], b[j])

\* s is the target, in any letter case, with at most one character replaced
\* by, or one character put in, whatever character, or one character left out
EditOfTarget(s) ==
    \/ /\ Len(s) = T_LEN
       /\ \E i \in 1..T_LEN : \A j \in 1..T_LEN : j # i => CaseEq(s[j], TARGET[j])
    \/ /\ Len(s) = T_LEN + 1
       /\ \E i \in 1..Len(s) :
             CaseEqSeq(SubSeq(s, 1, i - 1) \o SubSeq(s, i + 1, Len(s)), TARGET)
    \/ /\ Len(s) = T_LEN - 1
       /\ \E i \in 1..T_LEN :
             CaseEqSeq(s, SubSeq(TARGET, 1, i - 1) \o SubSeq(TARGET, i + 1, T_LEN))

ContainsEdit(line) ==
    \E a \in 1..Len(line) : \E b \in a..Len(line) : EditOfTarget(SubSeq(line, a, b))

\* C11: a line that contains the target with at most one single-character
\* substitution, insertion or deletion is removed: after a run, no line of
\* the speech contains such a string.
C11_EditedTargetRemoved ==
    passes >= 1 =>
        LET ls == SplitLines(speech)
        IN  \A n \in 1..Len(ls) : ~ContainsEdit(ls[n])

(***************************************************************************)
(* Properties of worker_process, checked under SpecTitles                  *)
(***************************************************************************)
\* the position p lies in the section of title block i: from the end of the
\* block to the start of the next one, or to the end of the text
InSection(i, p) ==
    /\ titles[i].end <= p
    /\ p < (IF i < Len(titles) THEN titles[i + 1].start ELSE Len(cleaned_text))

\* C12: every written row has one title: the stripped text of title block i
\* when its position lies in the section of block i (its start included, its
\* end excluded), the empty string when it lies in no section; no position
\* lies in two sections.
C12_OneTitle ==
    \A k \in 1..Len(written) :
        LET p == written[k].pos
            holds == {i \in 1..Len(titles) : InSection(i, p)}
        IN  /\ Cardinality(holds) <= 1
            /\ \A i \in holds : written[k].title = Strip(titles[i].text)
            /\ holds = {} => written[k].title = <<>>

\* a row at the very start of a section has its title, and a row before the
\* first section has none
C12_Witness ==
    /\ tpc = "done"
    /\ \E k \in 1..Len(written) : \E i \in 1..Len(titles) :
          written[k].pos = titles[i].end /\ written[k].title = Strip(titles[i].text)
    /\ \E k \in 1..Len(written) : written[k].title = <<>> /\ titles # <<>>

\* find_titles meets a line of boilerplate while a block is open
AtBoilerplate ==
    /\ tpc = "titles" /\ line_i <= Len(title_lines)
    /\ block # <<>>
    /\ Strip(title_lines[line_i]) # <<>>
    /\ exclude_line(title_lines[line_i])

\* C13 as stated: a line of boilerplate closes the open block and discards
\* it: the lines gathered before it are not emitted.
C13_BoilerplateDiscards ==
    [][AtBoilerplate => block' = <<>> /\ titles' = titles]_vars

\* the text of b, left-trimmed, begins with a courtesy title
BeginsWithCourtesy(b) ==
    LET joined == Concat([n \in 1..Len(b) |-> b[n].line])
        trimmed == SubSeq(joined, RunLen(joined, 0, WS) + 1, Len(joined))
    IN  \/ Len(trimmed) >= 3 /\ SubSeq(trimmed, 1, 3) = Chars("Mr.")
        \/ Len(trimmed) >= 3 /\ SubSeq(trimmed, 1, 3) = Chars("Ms.")
        \/ Len(trimmed) >= 4 /\ SubSeq(trimmed, 1, 4) = Chars("Mrs.")

\* C13, amended: a line of boilerplate closes the open block and is in no
\* block itself; the lines gathered before it are emitted as a title block,
\* from the first of them to the end of the last, unless they begin with a
\* courtesy title.
C13_BoilerplateCloses ==
    /\ [][AtBoilerplate =>
            /\ block' = <<>>
            /\ IF BeginsWithCourtesy(block)
               THEN titles' = titles
               ELSE /\ Len(titles') = Len(titles) + 1
                    /\ SubSeq(titles', 1, Len(titles)) = titles
                    /\ Last(titles').text = Concat([n \in 1..Len(block) |-> block[n].line])
                    /\ Last(titles').start = block[1].start
                    /\ Last(titles').end = Last(block).end]_vars
    /\ [](\A n \in 1..Len(block) : ~exclude_line(block[n].line))

\* a block was emitted at a line of boilerplate, and another was dropped there
C13_Witness ==
    /\ \E n \in 1..Len(titles) : titles[n].by = "boilerplate"
    /\ \E j \in 2..(line_i - 1) :
          /\ j <= Len(title_lines)
          /\ exclude_line(title_lines[j])
          /\ StartsWith(title_lines[j - 1], Chars("Ms."))

\* t, left-trimmed, begins with "Mr.", "Ms." or "Mrs."
CourtesyText(t) ==
    LET trimmed == SubSeq(t, RunLen(t, 0, WS) + 1, Len(t))
    IN  \/ Len(trimmed) >= 3 /\ SubSeq(trimmed, 1, 3) = Chars("Mr.")
        \/ Len(trimmed) >= 3 /\ SubSeq(trimmed, 1, 3) = Chars("Ms.")
        \/ Len(trimmed) >= 4 /\ SubSeq(trimmed, 1, 4) = Chars("Mrs.")

\* C14: no emitted title block has a text that, left-trimmed, begins with
\* "Mr.", "Ms." or "Mrs.", whatever closed the block.
C14_NoCourtesyTitle ==
    \A n \in 1..Len(titles) : ~CourtesyText(titles[n].text)

\* the lines are exhausted, a heading-like line that begins with a courtesy
\* title was met, and title blocks were emitted
C14_Witness ==
    /\ tpc = "done" /\ titles # <<>>
    /\ \E j \in 1..Len(title_lines) :
          CourtesyText(title_lines[j]) /\ is_strong(Strip(title_lines[j]))

\* find_titles meets a blank line while a block is open
AtBlank ==
    /\ tpc = "titles" /\ line_i <= Len(title_lines)
    /\ block # <<>>
    /\ Strip(title_lines[line_i]) = <<>>

\* there is a non-blank line after the line met, and the first one is
\* heading-like as the detector defines it for the lines of a block
NextIsHeading ==
    \E j \in (line_i + 1)..Len(title_lines) :
        /\ Strip(title_lines[j]) # <<>>
        /\ \A k \in (line_i + 1)..(j - 1) : Strip(title_lines[k]) = <<>>
        /\ is_strong(Strip(title_lines[j]))

\* C15: a blank line met while a block is open is kept in the block, which
\* stays open, if and only if the next non-blank line is heading-like (at
\* least 8 alphabetic characters, at least 2 alphabetic words, at least 60%
\* uppercase); otherwise the block is closed at the blank line.
C15_BlankLookAhead ==
    [][AtBlank =>
          IF NextIsHeading
          THEN block' = Append(block, [line |-> title_lines[line_i], start |-> offset,
                                       end |-> offset + Len(title_lines[line_i])])
          ELSE block' = <<>>]_vars

\* C16: every emitted title block spans a non-empty range of the text, its
\* text is the text of that range, and the blocks are in order and do not
\* overlap.
C16_BlockSpans ==
    /\ \A n \in 1..Len(titles) :
          /\ 0 <= titles[n].start
          /\ titles[n].start < titles[n].end
          /\ titles[n].end <= Len(cleaned_text)
          /\ titles[n].text = SubSeq(cleaned_text, titles[n].start + 1, titles[n].end)
    /\ \A n \in 1..(Len(titles) - 1) : titles[n].end <= titles[n + 1].start

\* two blocks were emitted, the first of several lines with a blank line
\* among them, the second not at the start of the text
C16_Witness ==
    /\ tpc = "done" /\ Len(titles) >= 2
    /\ \E j \in 1..(Len(titles[1].text) - 2) :
          titles[1].text[j] = "\n" /\ titles[1].text[j + 1] = "\n"
    /\ titles[1].end < titles[2].start

\* t without its zero-width and soft-hyphen characters and with its dash
\* variants made "-"
Cleared(t) ==
    LET Seen(c) == c \notin {ZWSP, ZWNJ, ZWJ, SHY, NBHY}
        kept == SelectSeq(t, Seen)
    IN  [j \in 1..Len(kept) |-> IF kept[j] \in {EMDASH, ENDASH} THEN "-" ELSE kept[j]]

\* the words of t with one space between them, upper-cased: the runs of
\* whitespace collapsed, none left at either end
TrimmedForm(t) == Upper(Join(<<" ">>, Split(Cleared(t))))

\* the normal form as C17 gives it: the runs of whitespace collapsed where
\* they stand, at the ends too
StatedForm(t) ==
    LET c == Cleared(t)
        lead == IF c # <<>> /\ c[1] \in WS THEN <<" ">> ELSE <<>>
        trail == IF Len(Split(c)) > 0 /\ c[Len(c)] \in WS THEN <<" ">> ELSE <<>>
    IN  Upper(lead \o Join(<<" ">>, Split(c)) \o trail)

\* sequence pre begins sequence t
Begins(t, pre) == Len(pre) <= Len(t) /\ \A j \in 1..Len(pre) : t[j] = pre[j]

\* C17 as stated: the speech written for a row with a title is the lines of
\* the row's speech whose normal form (zero-width characters removed, dashes
\* mapped, whitespace collapsed, upper-cased) does not begin with that of the
\* title; with no title the speech is unchanged.
C17_LinesNotBeginningWithTitle ==
    \A k \in 1..Len(written) :
        written[k].speech =
            IF written[k].title = <<>> THEN speech_rows[k]
            ELSE LET Stays(line) == ~Begins(StatedForm(line), StatedForm(written[k].title))
                 IN  Join(<<"\n">>, SelectSeq(SplitLines(speech_rows[k]), Stays))

\* C17, amended: the normal form is also trimmed of the whitespace at both
\* its ends, and the lines that stay are joined by "\n".
C17_TrimmedLinesNotBeginningWithTitle ==
    \A k \in 1..Len(written) :
        written[k].speech =
            IF written[k].title = <<>> THEN speech_rows[k]
            ELSE LET Stays(line) == ~Begins(TrimmedForm(line), TrimmedForm(written[k].title))
                 IN  Join(<<"\n">>, SelectSeq(SplitLines(speech_rows[k]), Stays))

\* a row with a title lost an indented line that holds a zero-width
\* character and kept its other lines; another row has no title
C17_Witness ==
    /\ \E k \in 1..Len(written) :
          /\ written[k].title # <<>>
          /\ speech_rows[k][1] = " "
          /\ \E j \in 1..Len(speech_rows[k]) : speech_rows[k][j] = ZWSP
          /\ written[k].speech # <<>>
          /\ Len(SplitLines(written[k].speech)) = Len(SplitLines(speech_rows[k])) - 1
    /\ \E k \in 1..Len(written) : written[k].title = <<>> /\ written[k].speech = speech_rows[k]

(***************************************************************************)
(* Properties of _strip_note_blocks, checked under SpecNotes               *)
(***************************************************************************)
\* line j of the text lies strictly between two marker lines
Between(j) ==
    /\ \E b \in 1..(j - 1) : IsMarker(note_lines[b])
    /\ \E a \in (j + 1)..Len(note_lines) : IsMarker(note_lines[a])

\* the lines of the text whose index is in keep, in their order
Picked(keep) ==
    Concat([j \in 1..Len(note_lines) |-> IF j \in keep THEN note_lines[j] ELSE <<>>])

\* C18: what _strip_note_blocks returns is the text without some of its
\* lines, each of them a line that is no marker and lies strictly between two
\* marker lines; every marker line and every other line is kept, in order.
C18_RemovedOnlyBetweenMarkers ==
    spc = "notes_done" =>
        \E keep \in SUBSET (1..Len(note_lines)) :
            /\ \A j \in 1..Len(note_lines) :
                  j \notin keep => ~IsMarker(note_lines[j]) /\ Between(j)
            /\ result = Picked(keep)

(***************************************************************************)
(* Properties of _clean_extraneous, checked under SpecClean                *)
(***************************************************************************)
\* the page-break bracket pattern and the two markup patterns of the list
PAGE_BREAK == EXTRAS_PATTERNS[5]
MARKUP == {EXTRAS_PATTERNS[6], EXTRAS_PATTERNS[7]}

\* C19: what _clean_extraneous returns holds no match of the page-break
\* bracket pattern and none of the markup patterns, and _clean_extraneous
\* leaves it as it is.
C19_CleanedToFixpoint ==
    spc = "clean_done" =>
        /\ ~Search(PAGE_BREAK, result)
        /\ \A re \in MARKUP : ~Search(re, result)
        /\ _clean_extraneous(result) = result

\* the orders of the patterns: the order of the list, and each order that
\* exchanges two patterns of it
Exchanged(a, b) ==
    [n \in 1..Len(EXTRAS_PATTERNS) |-> IF n = a THEN b ELSE IF n = b THEN a ELSE n]
Orders ==
    {Exchanged(a, b) : a \in 1..Len(EXTRAS_PATTERNS), b \in 1..Len(EXTRAS_PATTERNS)}

RECURSIVE CleanedInOrder(_, _, _)
\* t with the patterns removed in the order ord, from its n-th on
CleanedInOrder(ord, t, n) ==
    IF n > Len(ord) THEN t
    ELSE CleanedInOrder(ord, SubEmpty(EXTRAS_PATTERNS[ord[n]], t), n + 1)

\* C20: what _clean_extraneous returns is what comes of removing the
\* patterns in any other order (here: every order that exchanges two
\* patterns of the list).
C20_OrderIndependent ==
    spc = "clean_done" => \A ord \in Orders : CleanedInOrder(ord, given, 1) = result

(***************************************************************************)
(* Further properties of scrape, checked under SpecScrape                  *)
(***************************************************************************)
\* the Start events among the first n events of the timeline, in order
StartsBefore(n) ==
    LET IsStart(e) == e.etype = "speaker"
    IN  SelectSeq(SubSeq(events, 1, Min(n, Len(events))), IsStart)

\* C21: one turn is emitted per Start event, in the order of the Start
\* events and under the label of its event, whatever End events stand
\* between them: while the loop runs, every Start event met so far has its
\* turn, but for the one still open; at the end the turns are as many as the
\* Start events of the timeline, none where there is no Start event.
C21_OneTurnPerStart ==
    pc # "begin" =>
        LET met == StartsBefore(pos - 1)
            open == IF pc = "loop" /\ InTurn THEN 1 ELSE 0
        IN  /\ Len(turns) = Len(met) - open
            /\ \A k \in 1..Len(turns) :
                  turns[k].speaker \o <<".">> = Strip(Slice(text, met[k].start, met[k].end))
            /\ pc = "done" => Len(turns) = Len(StartsBefore(Len(events)))

\* scrape is done with two turns or more: one closed by an End event, one closed
\* by the next Start event, and End events that closed nothing
C21_Witness ==
    /\ pc = "done" /\ Len(turns) >= 2
    /\ Len(events) >= Len(turns) + 2
    /\ \E k \in 1..(Len(events) - 1) :
          events[k].etype = "speaker" /\ events[k + 1].etype = "speaker"
    /\ \E k \in 1..(Len(events) - 1) :
          events[k].etype = "end" /\ events[k + 1].etype = "end"

\* C22: every emitted turn begins, at the end of its Start event, no later
\* than it ends, at the start of the event that closed it or at the end of
\* the text.
C22_WellFormedSpan ==
    \A k \in 1..Len(turns) : turns[k].start <= turns[k].end

(***************************************************************************)
(* Further properties of worker_process, checked under SpecTitles          *)
(***************************************************************************)
\* the text the positions of the rows are offsets into
Reconstructed == Reconstruct(speech_rows, 1, <<>>, <<>>)[1]

\* t holds the characters of part from offset p on
HoldsAt(t, p, part) ==
    /\ p + Len(part) <= Len(t)
    /\ \A j \in 1..Len(part) : t[p + j] = part[j]

\* C23: the positions of the rows are offsets into the text the title blocks
\* were found in: that text holds the speech of every row at the position of
\* the row, and the last section ends where the text of the positions ends.
C23_PositionsInTitleText ==
    tpc \in {"rows", "done"} =>
        /\ \A k \in 1..Len(offsets) : HoldsAt(cleaned_text, offsets[k], speech_rows[k])
        /\ sections # <<>> => Last(sections).end = Len(Reconstructed)

\* C24: once there is a first title block, the sections cover the rest of
\* the text: a row whose position is at or after the end of the first block
\* and before the end of the text has a title that is not empty, the title of
\* the last block that begins at or before the position.
C24_SectionsCoverRest ==
    \A k \in 1..Len(written) :
        LET p == written[k].pos
            begun == {i \in 1..Len(titles) : titles[i].start <= p}
        IN  (titles # <<>> /\ titles[1].end <= p /\ p < Len(cleaned_text)) =>
                /\ written[k].title # <<>>
                /\ written[k].title = Strip(titles[CHOOSE i \in begun : \A j \in begun : j <= i].text)

(***************************************************************************)
(* Properties of remove_headers_with_fuzz, checked under SpecHeaders       *)
(***************************************************************************)
\* line j of the text is a chamber header the loop recognizes: it reaches
\* the chamber tests and passes one of them
Recognized(j) ==
    LET line == normalize_ocr(h_lines[j])
    IN  ~IsYearLine(line) /\ ~HoldsRecord(line) /\ IsChamberHeader(line)

\* C25: the skip flag looks one line ahead: it is set only while the line
\* just processed is a recognized chamber header, so it is clear once the
\* line after the header was processed, whatever rule that line fell under,
\* and a line is dropped for it only right after the header.
C25_OneLineLookahead ==
    (hpc = "loop" /\ h_skip_next) => (h_i > 1 /\ Recognized(h_i - 1))

(***************************************************************************)
(* Properties of levenshtein_leq1, checked under SpecLev                   *)
(***************************************************************************)
RECURSIVE Distance(_, _)
\* the Levenshtein distance of a and b: the fewest insertions, deletions
\* and substitutions of one character that make a into b
Distance(a, b) ==
    IF a = <<>> THEN Len(b)
    ELSE IF b = <<>> THEN Len(a)
    ELSE Min(Min(Distance(Tail(a), b) + 1, Distance(a, Tail(b)) + 1),
             Distance(Tail(a), Tail(b)) + (IF Head(a) = Head(b) THEN 0 ELSE 1))

\* C26: levenshtein_leq1(a, b) is true exactly when the Levenshtein distance
\* of a and b is at most 1, and levenshtein_leq1(b, a) is the same.
C26_DistanceAtMostOne ==
    lpc = "returned" =>
        /\ lev_out = (Distance(lev_a, lev_b) <= 1)
        /\ levenshtein_leq1(lev_b, lev_a) = lev_out

\* true was returned for a string and the same string with a letter put in
\* its middle
C26_Witness ==
    /\ lpc = "returned" /\ lev_out
    /\ Len(lev_a) = 3 /\ Len(lev_b) = 2
    /\ lev_a[1] = lev_b[1] /\ lev_a[3] = lev_b[2] /\ lev_a[2] # lev_a[1] /\ lev_a[2] # lev_a[3]

(***************************************************************************)
(* Properties of the API helpers, checked under SpecRetry                  *)
(***************************************************************************)
\* C27: while the server answers every request of a call with 429, the
\* helper makes at most MAX_RETRIES requests, and with MAX_RETRIES of them
\* made it makes no further one: it returns or raises.
C27_BoundedRequests ==
    rq_all429 =>
        /\ rq_requests <= MAX_RETRIES
        /\ rq_requests = MAX_RETRIES => ~ENABLED RateLimited

(***************************************************************************)
(* Properties of the CRECB worker, checked under SpecYears                 *)
(***************************************************************************)
\* the files of a year among files, and the threads of a year at a place
FilesOf(files, y) == {f \in files : f.year = y}
WorkersAt(y, at) == {w \in Workers : w_year[w] = y /\ w_pc[w] = at}

\* the index prefixes of the files are distinct and are 1..n, and the
\* counter is one more than the files written, but for a file just written
\* whose increment is the next statement
CounterKept(files, y, ctr, inc) ==
    LET n == Cardinality(FilesOf(files, y))
    IN  /\ \A f, g \in FilesOf(files, y) : f.idx = g.idx => f = g
        /\ {f.idx : f \in FilesOf(files, y)} = 1..n
        /\ ctr = n + 1 - Cardinality(WorkersAt(y, inc))

\* C28: under every interleaving of the worker threads, the state of a year
\* is initialised once; the index prefixes of the PDF files of a year are
\* distinct and form 1..n, and so do those of its XML files; a counter is
\* incremented only for a file that was written.
C28_YearCounters ==
    \A y \in Years :
        /\ year_inits[y] = (IF y \in DOMAIN year_states THEN 1 ELSE 0)
        /\ y \in DOMAIN year_states =>
              /\ CounterKept(pdf_files, y, year_states[y].pdf_ctr, "pdf_inc")
              /\ CounterKept(xml_files, y, year_states[y].xml_ctr, "xml_inc")
        /\ y \notin DOMAIN year_states => FilesOf(pdf_files \cup xml_files, y) = {}

\* all the threads have returned, having written two PDF files and one XML
\* file of one year
C28_Witness ==
    /\ \A w \in Workers : w_pc[w] = "returned"
    /\ \E y \in Years :
          /\ Cardinality(FilesOf(pdf_files, y)) = MaxWorkers
          /\ Cardinality(FilesOf(xml_files, y)) = MaxWorkers - 1

(***************************************************************************)
(* Properties of get_api_key, checked under SpecKeys                       *)
(***************************************************************************)
\* the callers that have read a key and not yet advanced the index
Advancing == {c \in Callers : k_pc[c] = "advance"}

\* C29: with k >= 1 keys and concurrent callers, _key_index stays in
\* 0..k-1 and the keys are handed out round-robin in the order the lock is
\* taken: the n-th call gets key (n-1) mod k, and no update of the index is
\* lost.
C29_RoundRobin ==
    /\ _key_index \in 0..(n_keys - 1)
    /\ \A n \in 1..Len(handed) : handed[n] = (n - 1) % n_keys
    /\ Cardinality(Advancing) <= 1
    /\ _key_index = (Len(handed) + n_keys - Cardinality(Advancing)) % n_keys

\* more calls than keys were served, by both callers in turn, and the index
\* has wrapped around
C29_Witness ==
    /\ \A c \in Callers : k_calls[c] = MaxCalls
    /\ n_keys > 1
    /\ Len(handed) > n_keys
    /\ handed[n_keys + 1] = 0

(***************************************************************************)
(* Properties of scrape_day, checked under SpecDay                         *)
(***************************************************************************)
\* the granules fetched, as a set
FetchedSet == {d_results[k] : k \in 1..Len(d_results)}

\* one more than the items of smaller granule id that have the part
RankOf(item, part) ==
    1 + Cardinality({other \in FetchedSet : other[part] /\ StrLess(other.gid, item.gid)})

\* C30: for a given set of fetched granules, the numeric prefix of every
\* HTML and XML file written and the title map returned are the same
\* whatever the order in which the fetches completed, the sequential order
\* included, and the numbering follows the ascending granule id.
C30_NumberedByGranuleId ==
    dpc = "done" =>
        /\ d_files =
              {[kind |-> "html", prefix |-> RankOf(item, "html"), gid |-> item.gid] :
                  item \in {i \in FetchedSet : i.html}} \cup
              {[kind |-> "xml", prefix |-> RankOf(item, "mods_xml"), gid |-> item.gid] :
                  item \in {i \in FetchedSet : i.mods_xml}}
        /\ title_map = {<<item.gid, item.title>> : item \in {i \in FetchedSet : i.mods_xml}}
        /\ \A f, g \in d_files :
              (f.kind = g.kind /\ StrLess(f.gid, g.gid)) => f.prefix < g.prefix

\* a parallel day has returned whose fetches completed in descending order
\* of granule id, and two HTML files and two XML files were written
C30_Witness ==
    /\ dpc = "done"
    /\ d_parallel
    /\ Len(d_order) >= 2
    /\ StrLess(d_order[2], d_order[1])
    /\ Cardinality(d_files) = 4

=============================================================================
